---- MODULE Spec2Model ----
(***************************************************************************)
(* Codebase Reviewer: documentation claims, code facts and the drift       *)
(* report that compares them (bordenet/scripts, codebase-reviewer).        *)
(*                                                                         *)
(* Python strings are TLA+ strings.  Optional[T] is a sequence of length 0 *)
(* (None) or 1.  Python lists are sequences.  A Python set that is         *)
(* iterated is passed to the operator as a sequence in iteration order,    *)
(* which the calling action chooses among all orders.                      *)
(***************************************************************************)
EXTENDS Integers, Sequences, FiniteSets, TLC

VARIABLES
    arch_drift,       \* the three result lists given to _calculate_drift_severity
    setup_drift,
    api_drift,
    drift_severity,   \* Optional: what _calculate_drift_severity returned
    docs,             \* the DocumentationAnalysis given to validate
    code,             \* the CodeAnalysis given to validate
    report,           \* Optional: the DriftReport validate returned
    hash_order,       \* the iteration order of string sets in this process
    claims_of,        \* orchestrator |-> self.claims of its DocumentationAnalyzer
    frame,            \* Optional: the run_full_analysis call in progress
    events,           \* per call, the progress messages and the stages run
    returned,         \* per call that returned, what it returned
    analysis_cache,   \* web.py: repository path |-> Optional cached analysis
    requests,         \* the web requests being handled, each with its position
    responses         \* the responses of the web server, in the order sent

validation_vars == <<arch_drift, setup_drift, api_drift, drift_severity, docs, code, report>>
pipeline_vars == <<hash_order, claims_of, frame, events, returned>>
web_vars == <<analysis_cache, requests, responses>>
vars == <<validation_vars, pipeline_vars, web_vars>>

(***************************************************************************)
(* Bounds of the model.                                                    *)
(***************************************************************************)
MaxArchResults == 2
MaxSetupResults == 1
MaxApiResults == 1
MaxComponents == 3
MaxPrereqs == 7

(***************************************************************************)
(* Python values.                                                          *)
(***************************************************************************)
None == << >>
Some(x) == <<x>>

\* Python truthiness of an Optional[str]: None and "" are falsy.
TruthyStr(o) == o # None /\ o[1] # ""

Min(a, b) == IF a < b THEN a ELSE b

\* seq[:n]
Take(seq, n) == SubSeq(seq, 1, Min(n, Len(seq)))

\* All sequences over S of length at most n.
SeqsUpTo(S, n) == UNION {[1..k -> S] : k \in 0..n}

\* sum(1 for x in seq if P(x))
CountIf(seq, P(_)) == Cardinality({i \in DOMAIN seq : P(seq[i])})

(***************************************************************************)
(* str.lower() and the substring test `sub in s`.                          *)
(***************************************************************************)
UpperToLower ==
    [A |-> "a", B |-> "b", C |-> "c", D |-> "d", E |-> "e", F |-> "f", G |-> "g",
     H |-> "h", I |-> "i", J |-> "j", K |-> "k", L |-> "l", M |-> "m", N |-> "n",
     O |-> "o", P |-> "p", Q |-> "q", R |-> "r", S |-> "s", T |-> "t", U |-> "u",
     V |-> "v", W |-> "w", X |-> "x", Y |-> "y", Z |-> "z"]

LowerChar(c) == IF c \in DOMAIN UpperToLower THEN UpperToLower[c] ELSE c

\* The characters i..j of s lowered, by halves.
RECURSIVE LowerFrom(_, _, _)
LowerFrom(s, i, j) ==
    IF i > j THEN ""
    ELSE IF i = j THEN LowerChar(SubSeq(s, i, i))
    ELSE LowerFrom(s, i, (i + j) \div 2) \o LowerFrom(s, (i + j) \div 2 + 1, j)

Lower(s) == LowerFrom(s, 1, Len(s))

\* sub in s
Contains(sub, s) ==
    \E i \in 1..(Len(s) - Len(sub) + 1) : SubSeq(s, i, i + Len(sub) - 1) = sub

\* str(n) for n >= 0
Digits == <<"0", "1", "2", "3", "4", "5", "6", "7", "8", "9">>
RECURSIVE Str(_)
Str(n) == IF n < 10 THEN Digits[n + 1] ELSE Str(n \div 10) \o Digits[(n % 10) + 1]

(***************************************************************************)
(* models.py enumerations.                                                 *)
(***************************************************************************)
ValidationStatus == {"VALID", "INVALID", "PARTIAL", "UNTESTABLE"}
Severity == {"CRITICAL", "HIGH", "MEDIUM", "LOW", "INFO"}
ClaimType == {"ARCHITECTURE", "SETUP", "API", "FEATURE", "DEPENDENCY", "DEPLOYMENT"}

(***************************************************************************)
(* ValidationEngine._calculate_drift_severity                              *)
(***************************************************************************)
IsInvalidOrPartial(r) == r.validation_status \in {"INVALID", "PARTIAL"}
IsCriticalOrHigh(r) == r.severity \in {"CRITICAL", "HIGH"}

\* Slip: the CRITICAL/HIGH test is made after the INVALID/PARTIAL count.
CalculateDriftSeverityCountFirst(arch, setup, api) ==
    LET all_results == arch \o setup \o api
        invalid_count == CountIf(all_results, IsInvalidOrPartial)
        critical_count == CountIf(all_results, IsCriticalOrHigh)
    IN  IF all_results = << >> THEN "LOW"
        ELSE IF invalid_count > 3 THEN "MEDIUM"
        ELSE IF critical_count > 0 THEN "HIGH"
        ELSE "LOW"

\* Slip: without the early return for no results, an empty report is
\* rated by the absence of VALID results.
CalculateDriftSeverityNoEarlyReturn(arch, setup, api) ==
    LET all_results == arch \o setup \o api
        invalid_count == CountIf(all_results, IsInvalidOrPartial)
        critical_count == CountIf(all_results, IsCriticalOrHigh)
        valid_count == CountIf(all_results, LAMBDA r : r.validation_status = "VALID")
    IN  IF critical_count > 0 THEN "HIGH"
        ELSE IF invalid_count > 3 \/ valid_count = 0 THEN "MEDIUM"
        ELSE "LOW"

CalculateDriftSeverity(arch, setup, api) ==
    LET all_results == arch \o setup \o api
        invalid_count == CountIf(all_results, IsInvalidOrPartial)
        critical_count == CountIf(all_results, IsCriticalOrHigh)
    IN  IF all_results = << >> THEN "LOW"
        ELSE IF critical_count > 0 THEN "HIGH"
        ELSE IF invalid_count > 3 THEN "MEDIUM"
        ELSE "LOW"

(***************************************************************************)
(* models.py records.                                                      *)
(***************************************************************************)
Claim(source_doc, claim_type, description, severity) ==
    [source_doc |-> source_doc, claim_type |-> claim_type,
     description |-> description, testable |-> TRUE, severity |-> severity]

\* evidence is the f-string's text and the values formatted into it.
ValidationResult(claim, validation_status, severity, evidence, recommendation) ==
    [claim |-> claim, validation_status |-> validation_status,
     severity |-> severity, evidence |-> evidence,
     recommendation |-> recommendation]

Evidence(text, items, numbers) ==
    [text |-> text, items |-> items, numbers |-> numbers]

Names(seq) == [i \in DOMAIN seq |-> seq[i].name]
LowerAll(seq) == [i \in DOMAIN seq |-> Lower(seq[i])]
Range(seq) == {seq[i] : i \in DOMAIN seq}

(***************************************************************************)
(* ValidationEngine._check_pattern_consistency                             *)
(***************************************************************************)
consistency_map ==
    [mvc |-> <<"django", "rails", "spring">>,
     microservices |-> <<"express", "flask", "spring boot">>,
     monolith |-> <<"django", "rails">>]

\* Slip: a pattern without rules is taken as inconsistent.
CheckPatternConsistencyStrict(claimed_pattern, frameworks) ==
    LET pattern_lower == Lower(claimed_pattern)
    IN  /\ pattern_lower \in DOMAIN consistency_map
        /\ \E f \in DOMAIN frameworks :
              \E e \in DOMAIN consistency_map[pattern_lower] :
                 Contains(consistency_map[pattern_lower][e], Lower(frameworks[f].name))

CheckPatternConsistency(claimed_pattern, frameworks) ==
    LET pattern_lower == Lower(claimed_pattern)
    IN  IF pattern_lower \in DOMAIN consistency_map
        THEN LET expected_frameworks == consistency_map[pattern_lower]
                 framework_names == LowerAll(Names(frameworks))
             IN  \E f \in DOMAIN framework_names :
                    \E e \in DOMAIN expected_frameworks :
                       Contains(expected_frameworks[e], framework_names[f])
        ELSE TRUE

(***************************************************************************)
(* ValidationEngine._validate_architecture_claims                          *)
(***************************************************************************)
\* The claims the generator of pattern_claim accepts, in docs.claims order.
PatternClaims(d, pattern) ==
    SelectSeq(d.claims,
              LAMBDA c : /\ c.claim_type = "ARCHITECTURE"
                         /\ Contains(Lower(pattern), Lower(c.description)))

PatternResults(d, c) ==
    LET claimed_arch == d.claimed_architecture[1]
        actual_structure == c.structure[1]
    IN  IF ~TruthyStr(claimed_arch.pattern) THEN << >>
        ELSE LET pattern == claimed_arch.pattern[1]
                 matching == PatternClaims(d, pattern)
             IN  IF matching = << >> THEN << >>
                 ELSE LET pattern_valid ==
                              CheckPatternConsistency(pattern, actual_structure.frameworks)
                      IN  << ValidationResult(
                                Some(matching[1]),
                                IF pattern_valid THEN "VALID" ELSE "PARTIAL",
                                "MEDIUM",
                                Evidence("Detected frameworks",
                                         Names(actual_structure.frameworks), << >>),
                                IF pattern_valid
                                THEN "Architecture pattern appears consistent"
                                ELSE "Verify claimed architecture matches implementation") >>

\* sum(1 for component in components if any(component.lower() in path.lower() ...))
ComponentsFound(components, entry_points) ==
    CountIf(components,
            LAMBDA component :
                \E p \in DOMAIN entry_points :
                    Contains(Lower(component), Lower(entry_points[p].path)))

\* Slip: the comparison with half the claimed components is not strict.
ComponentShortfallInclusive(components_found, claimed) ==
    2 * components_found <= claimed

\* components_found < len(claimed_arch.components) * 0.5
ComponentShortfall(components_found, claimed) ==
    2 * components_found < claimed

\* Slip: the component result is given the severity of the claim it misses.
ComponentResultsHighSeverity(d, c) ==
    LET claimed_arch == d.claimed_architecture[1]
        actual_structure == c.structure[1]
        components_found ==
            ComponentsFound(claimed_arch.components, actual_structure.entry_points)
    IN  IF claimed_arch.components = << >> THEN << >>
        ELSE IF ComponentShortfall(components_found, Len(claimed_arch.components))
        THEN << ValidationResult(
                   IF d.claims # << >> THEN Some(d.claims[1]) ELSE None,
                   "PARTIAL",
                   "HIGH",
                   Evidence("Found claimed components", << >>,
                            <<components_found, Len(claimed_arch.components)>>),
                   "Review documented component list for accuracy") >>
        ELSE << >>

ComponentResults(d, c) ==
    LET claimed_arch == d.claimed_architecture[1]
        actual_structure == c.structure[1]
        components_found ==
            ComponentsFound(claimed_arch.components, actual_structure.entry_points)
    IN  IF claimed_arch.components = << >> THEN << >>
        ELSE IF ComponentShortfall(components_found, Len(claimed_arch.components))
        THEN << ValidationResult(
                   IF d.claims # << >> THEN Some(d.claims[1]) ELSE None,
                   "PARTIAL",
                   "MEDIUM",
                   Evidence("Found claimed components", << >>,
                            <<components_found, Len(claimed_arch.components)>>),
                   "Review documented component list for accuracy") >>
        ELSE << >>

ValidateArchitectureClaims(d, c) ==
    IF d.claimed_architecture = None \/ c.structure = None THEN << >>
    ELSE PatternResults(d, c) \o ComponentResults(d, c)

(***************************************************************************)
(* ValidationEngine._validate_setup_instructions                           *)
(***************************************************************************)
\* doc_deps = set(dep.lower() for dep in setup.prerequisites if len(dep) > 3)
DocDeps(d) ==
    IF d.setup_instructions = None THEN {}
    ELSE LET prerequisites == d.setup_instructions[1].prerequisites
         IN  {Lower(prerequisites[i]) :
                 i \in {j \in DOMAIN prerequisites : Len(prerequisites[j]) > 3}}

\* actual_deps = set(dep.name.lower() for dep in code.dependencies)
ActualDeps(c) == {Lower(c.dependencies[i].name) : i \in DOMAIN c.dependencies}

\* The elements of doc_deps that missing_deps collects.
MissingDeps(d, c) ==
    {doc_dep \in DocDeps(d) : ~\E actual \in ActualDeps(c) : Contains(doc_dep, actual)}

\* Slip: the evidence slice is one term longer.
ListedMissingSix(missing_deps) == Take(missing_deps, 6)

\* missing_deps[:5]
ListedMissing(missing_deps) == Take(missing_deps, 5)

\* missing_deps: the list built by iterating the set doc_deps.
ValidateSetupInstructions(d, c, missing_deps) ==
    IF d.setup_instructions = None \/ c.dependencies = << >> THEN << >>
    ELSE IF missing_deps # << >> /\ Len(missing_deps) > 2
    THEN LET setup_claims ==
                 SelectSeq(d.claims, LAMBDA cl : cl.claim_type = "SETUP")
         IN  IF setup_claims # << >>
             THEN << ValidationResult(
                        Some(setup_claims[1]),
                        "PARTIAL",
                        "LOW",
                        Evidence("Documented prerequisites may not match dependency files",
                                 ListedMissing(missing_deps), << >>),
                        "Verify setup documentation matches actual requirements") >>
             ELSE << >>
    ELSE << >>

(***************************************************************************)
(* ValidationEngine._validate_api_documentation                            *)
(***************************************************************************)
\* Slip: the style is compared without lowering the framework names.
ApiConsistentCaseSensitive(api_type, frameworks) ==
    IF Lower(api_type) = "graphql"
    THEN \E f \in DOMAIN frameworks : Contains("graphql", frameworks[f].name)
    ELSE TRUE

ApiConsistent(api_type, frameworks) ==
    LET framework_names == LowerAll(Names(frameworks))
    IN  IF Lower(api_type) = "graphql"
        THEN \E f \in DOMAIN framework_names : Contains("graphql", framework_names[f])
        ELSE TRUE

ValidateApiDocumentation(d, c) ==
    IF d.api_documentation = None THEN << >>
    ELSE LET api_doc == d.api_documentation[1]
         IN  IF TruthyStr(api_doc.api_type) /\ c.structure # None
             THEN LET api_consistent ==
                          ApiConsistent(api_doc.api_type[1], c.structure[1].frameworks)
                      api_claims ==
                          SelectSeq(d.claims, LAMBDA cl : cl.claim_type = "API")
                  IN  IF api_claims # << >> /\ ~api_consistent
                      THEN << ValidationResult(
                                 Some(api_claims[1]),
                                 "PARTIAL",
                                 "MEDIUM",
                                 Evidence("Claimed API type but no matching framework detected",
                                          <<api_doc.api_type[1]>>, << >>),
                                 "Verify API type documentation") >>
                      ELSE << >>
             ELSE << >>

(***************************************************************************)
(* ValidationEngine._find_undocumented_features                            *)
(***************************************************************************)
RECURSIVE Join(_, _)
\* sep.join(seq), by halves.
Join(seq, sep) ==
    IF seq = << >> THEN ""
    ELSE IF Len(seq) = 1 THEN seq[1]
    ELSE Join(SubSeq(seq, 1, Len(seq) \div 2), sep) \o sep
             \o Join(SubSeq(seq, Len(seq) \div 2 + 1, Len(seq)), sep)

\* detected_frameworks = {f.name for f in code.structure.frameworks}
DetectedFrameworks(c) ==
    IF c.structure = None THEN {} ELSE Range(Names(c.structure[1].frameworks))

\* Slip: the framework name is looked up as written, not lowercased.
FindUndocumentedFeaturesCaseSensitive(d, c, detected_frameworks) ==
    IF c.structure = None THEN << >>
    ELSE LET doc_content ==
                 Join([i \in DOMAIN d.discovered_docs |->
                          Lower(d.discovered_docs[i].content)], " ")
             undocumented_frameworks ==
                 SelectSeq(detected_frameworks,
                           LAMBDA framework : ~Contains(framework, doc_content))
             languages == c.structure[1].languages
             undocumented_language ==
                 IF languages # << >> /\ ~Contains(Lower(languages[1].name), doc_content)
                 THEN << "Primary language: " \o languages[1].name >>
                 ELSE << >>
         IN  Take([i \in DOMAIN undocumented_frameworks |->
                      "Framework: " \o undocumented_frameworks[i]]
                  \o undocumented_language, 10)

\* detected_frameworks: the set's names in iteration order.
FindUndocumentedFeatures(d, c, detected_frameworks) ==
    IF c.structure = None THEN << >>
    ELSE LET doc_content ==
                 Join([i \in DOMAIN d.discovered_docs |->
                          Lower(d.discovered_docs[i].content)], " ")
             undocumented_frameworks ==
                 SelectSeq(detected_frameworks,
                           LAMBDA framework : ~Contains(Lower(framework), doc_content))
             languages == c.structure[1].languages
             undocumented_language ==
                 IF languages # << >> /\ ~Contains(Lower(languages[1].name), doc_content)
                 THEN << "Primary language: " \o languages[1].name >>
                 ELSE << >>
         IN  Take([i \in DOMAIN undocumented_frameworks |->
                      "Framework: " \o undocumented_frameworks[i]]
                  \o undocumented_language, 10)

(***************************************************************************)
(* ValidationEngine.validate                                               *)
(***************************************************************************)
DriftReport(architecture_drift, setup_drift_, api_drift_, undocumented_features, severity) ==
    [architecture_drift |-> architecture_drift,
     setup_drift |-> setup_drift_,
     api_drift |-> api_drift_,
     undocumented_features |-> undocumented_features,
     outdated_documentation |-> << >>,
     drift_severity |-> severity]

Validate(d, c, missing_deps, detected_frameworks) ==
    LET architecture_drift == ValidateArchitectureClaims(d, c)
        setup_drift_ == ValidateSetupInstructions(d, c, missing_deps)
        api_drift_ == ValidateApiDocumentation(d, c)
        undocumented_features == FindUndocumentedFeatures(d, c, detected_frameworks)
    IN  DriftReport(architecture_drift, setup_drift_, api_drift_, undocumented_features,
                    CalculateDriftSeverity(architecture_drift, setup_drift_, api_drift_))

RECURSIVE Orders(_)
\* Every order in which a set can be iterated.
Orders(S) ==
    IF S = {} THEN {<< >>}
    ELSE UNION {{<<x>> \o rest : rest \in Orders(S \ {x})} : x \in S}

(***************************************************************************)
(* Python str and re primitives used by the documentation analyzer.        *)
(***************************************************************************)
\* s[i-1:i]: the character at position i (1-based), "" beyond the end
Char(s, i) == IF 1 <= i /\ i <= Len(s) THEN SubSeq(s, i, i) ELSE ""
From(s, i) == SubSeq(s, i, Len(s))

\* The characters matched by \s, [A-Z], [A-Za-z] and \w in the texts.
SpaceChars == {" ", "\t", "\n", "\r", "\f"}
UpperChars == DOMAIN UpperToLower
LetterChars == UpperChars \cup {UpperToLower[u] : u \in UpperChars}
WordChars == LetterChars \cup {"0", "1", "2", "3", "4", "5", "6", "7", "8", "9", "_"}
IsSpace(c) == c \in SpaceChars

\* s.startswith(prefix) at position i (1-based): s[i-1:].startswith(prefix)
StartsAt(s, i, prefix) ==
    /\ 1 <= i
    /\ i + Len(prefix) - 1 <= Len(s)
    /\ SubSeq(s, i, i + Len(prefix) - 1) = prefix

\* s.endswith(suffix)
EndsWith(s, suffix) ==
    Len(s) >= Len(suffix) /\ SubSeq(s, Len(s) - Len(suffix) + 1, Len(s)) = suffix

\* The least element of a non-empty set of positions.
Least(S) == CHOOSE i \in S : \A j \in S : i <= j

\* The least position >= i whose character is not in chars, or Len(s) + 1.
SkipWhile(s, i, chars) ==
    IF i > Len(s) THEN i
    ELSE Least({j \in i..(Len(s) + 1) : Char(s, j) \notin chars})

\* The least position >= i where sub starts in s, or 0.
Find(s, sub, i) ==
    LET hits == {j \in i..(Len(s) - Len(sub) + 1) : StartsAt(s, j, sub)}
    IN  IF hits = {} THEN 0 ELSE Least(hits)

\* s.strip()
RECURSIVE RStrip(_)
RStrip(s) ==
    IF s # "" /\ IsSpace(Char(s, Len(s))) THEN RStrip(SubSeq(s, 1, Len(s) - 1)) ELSE s
Strip(s) == RStrip(From(s, SkipWhile(s, 1, SpaceChars)))

\* s.split("\n")
RECURSIVE SplitLines(_)
SplitLines(s) ==
    LET Halves(n) == SplitLines(SubSeq(s, 1, n - 1)) \o SplitLines(From(s, n + 1))
        Middle(breaks) ==
            IF breaks = {} THEN <<s>>
            ELSE Halves(CHOOSE n \in breaks :
                            Cardinality({m \in breaks : m < n}) = Cardinality(breaks) \div 2)
    IN  Middle({n \in 1..Len(s) : Char(s, n) = "\n"})

\* seq without the elements that occurred before (first occurrence kept).
RECURSIVE Dedup(_)
Dedup(seq) ==
    IF Len(seq) <= 1 THEN seq
    ELSE LET New(first, second) ==
                 first \o SelectSeq(second, LAMBDA x : x \notin Range(first))
         IN  New(Dedup(SubSeq(seq, 1, Len(seq) \div 2)),
                 Dedup(SubSeq(seq, Len(seq) \div 2 + 1, Len(seq))))

\* The lists of a list of lists, concatenated.
RECURSIVE Flatten(_)
Flatten(seqs) ==
    IF seqs = << >> THEN << >>
    ELSE IF Len(seqs) = 1 THEN seqs[1]
    ELSE Flatten(SubSeq(seqs, 1, Len(seqs) \div 2))
             \o Flatten(SubSeq(seqs, Len(seqs) \div 2 + 1, Len(seqs)))

(***************************************************************************)
(* DocumentationAnalyzer._extract_section                                  *)
(***************************************************************************)
\* re.match(r"^(#{1,6})\s+(.+)$", line): None, or the level and the title.
HeaderMatch(line) ==
    LET hashes == SkipWhile(line, 1, {"#"}) - 1
        text == SkipWhile(line, hashes + 1, SpaceChars)
    IN  IF hashes >= 1 /\ hashes <= 6 /\ text > hashes + 1 /\ Len(line) >= hashes + 2
              /\ Find(line, "\n", 1) = 0
        THEN Some([level |-> hashes,
                   title |-> IF text <= Len(line) THEN From(line, text)
                             ELSE Char(line, Len(line))])
        ELSE None

TitleHasKeyword(title, keywords) ==
    \E k \in DOMAIN keywords : Contains(keywords[k], Lower(title))

\* The body of the loop on one line; st is (in_section, current_level,
\* section_lines) and broke, which the break sets.
SectionStep(line, keywords, st) ==
    LET Body(header_match) ==
            IF header_match # None
                  /\ TitleHasKeyword(header_match[1].title, keywords)
            THEN [st EXCEPT !.in_section = TRUE,
                            !.current_level = header_match[1].level,
                            !.section_lines = <<line>>]
            ELSE IF header_match # None /\ st.in_section
                       /\ header_match[1].level <= st.current_level
            THEN [st EXCEPT !.broke = TRUE]
            ELSE IF st.in_section
            THEN [st EXCEPT !.section_lines = Append(@, line)]
            ELSE st
    IN  Body(HeaderMatch(line))

\* The loop over the lines i..j, the first half of them and then the rest.
RECURSIVE SectionRange(_, _, _, _, _)
SectionRange(lines, i, j, keywords, st) ==
    IF i > j \/ st.broke THEN st
    ELSE IF i = j THEN SectionStep(lines[i], keywords, st)
    ELSE LET Rest(first) ==
                 IF first.broke THEN first
                 ELSE SectionRange(lines, (i + j) \div 2 + 1, j, keywords, first)
         IN  Rest(SectionRange(lines, i, (i + j) \div 2, keywords, st))

\* The loop over the lines from line i on.
SectionScan(lines, i, keywords, st) == SectionRange(lines, i, Len(lines), keywords, st)

\* Optional[str]
ExtractSection(content, keywords) ==
    LET st == SectionScan(SplitLines(content), 1, keywords,
                          [in_section |-> FALSE, current_level |-> 0,
                           section_lines |-> << >>, broke |-> FALSE])
    IN  IF st.section_lines # << >> THEN Some(Join(st.section_lines, "\n")) ELSE None

(***************************************************************************)
(* DocumentationAnalyzer._extract_list_items                               *)
(***************************************************************************)
\* re.match(r"^[\s]*[-*+]\s+(.+)$", line): None, or group(1).strip().
ListItemMatch(line) ==
    LET bullet == SkipWhile(line, 1, SpaceChars)
        text == SkipWhile(line, bullet + 1, SpaceChars)
    IN  IF bullet <= Len(line) /\ Char(line, bullet) \in {"-", "*", "+"}
              /\ text > bullet + 1 /\ Len(line) >= bullet + 2
        THEN Some(Strip(From(line, bullet + 2)))
        ELSE None

ExtractListItems(content) ==
    LET lines == SplitLines(content)
    IN  Flatten([i \in DOMAIN lines |-> ListItemMatch(lines[i])])

(***************************************************************************)
(* DocumentationAnalyzer._extract_code_blocks                              *)
(***************************************************************************)
\* A TLA+ string cannot hold the backtick: the texts of the model write it ~.
Backtick == "~"
Fence == Backtick \o Backtick \o Backtick

\* re.findall(r"~~~(?:\w+)?\n(.*?)~~~", content, re.DOTALL) from position i
\* on, each match stripped.
RECURSIVE CodeBlocksFrom(_, _)
CodeBlocksFrom(content, i) ==
    LET open == Find(content, Fence, i)
        tag_end == SkipWhile(content, open + Len(Fence), WordChars)
        close == Find(content, Fence, tag_end + 1)
    IN  IF open = 0 THEN << >>
        ELSE IF tag_end <= Len(content) /\ Char(content, tag_end) = "\n" /\ close # 0
        THEN <<Strip(SubSeq(content, tag_end + 1, close - 1))>>
                 \o CodeBlocksFrom(content, close + Len(Fence))
        ELSE CodeBlocksFrom(content, open + 1)

ExtractCodeBlocks(content) == CodeBlocksFrom(content, 1)

(***************************************************************************)
(* The file system.  A repository is its root path, whether the root       *)
(* exists, and its regular files in the order os.walk and glob yield them; *)
(* a file is its path relative to the root, its text (None when reading it *)
(* raises UnicodeDecodeError or PermissionError), its size, and for a JSON *)
(* manifest what json.loads returns for its text.                          *)
(***************************************************************************)
File(path, content, size_bytes) ==
    [path |-> path, content |-> content, size_bytes |-> size_bytes]

Repository(root, exists, files) == [root |-> root, exists |-> exists, files |-> files]

\* Path(root) / pattern, is_file(), os.walk and glob find nothing under a
\* root that does not exist.
FilesOf(repo) == IF repo.exists THEN repo.files ELSE << >>

\* The code points of the characters of paths, in increasing order.
CodePoints ==
    " !#$%&'()*+,-./0123456789:;<=>?@ABCDEFGHIJKLMNOPQRSTUVWXYZ[]^_abcdefghijklmnopqrstuvwxyz{|}~"
CodePoint == [c \in {Char(CodePoints, i) : i \in 1..Len(CodePoints)} |->
                 CHOOSE i \in 1..Len(CodePoints) : Char(CodePoints, i) = c]

\* a < b for Python strings
RECURSIVE StrLess(_, _)
StrLess(a, b) ==
    IF b = "" THEN FALSE
    ELSE IF a = "" THEN TRUE
    ELSE IF Char(a, 1) = Char(b, 1) THEN StrLess(From(a, 2), From(b, 2))
    ELSE CodePoint[Char(a, 1)] < CodePoint[Char(b, 1)]

\* The part of a path after its last "/".
RECURSIVE BaseName(_)
BaseName(path) ==
    LET slash == Find(path, "/", 1)
    IN  IF slash = 0 THEN path ELSE BaseName(From(path, slash + 1))

\* Path.glob(pattern) for the patterns "dir/*ext" and "dir/**/*ext"
\* of the catalog: does the relative path match?
GlobMatch(pattern, path) ==
    LET star == Find(pattern, "*", 1)
        prefix == SubSeq(pattern, 1, star - 1)
        recursive == StartsAt(pattern, star, "**/")
        suffix == From(pattern, IF recursive THEN star + 4 ELSE star + 1)
        rest == From(path, Len(prefix) + 1)
    IN  /\ StartsAt(path, 1, prefix)
        /\ EndsWith(rest, suffix)
        /\ recursive \/ Find(rest, "/", 1) = 0

(***************************************************************************)
(* DocumentationAnalyzer._discover_documentation                           *)
(***************************************************************************)
DOCUMENTATION_PATTERNS ==
    << [doc_type |-> "primary",
        patterns |-> <<"README.md", "README.rst", "README.txt", "README">>],
       [doc_type |-> "contributing",
        patterns |-> <<"CONTRIBUTING.md", "CONTRIBUTING.rst", ".github/CONTRIBUTING.md">>],
       [doc_type |-> "architecture",
        patterns |-> <<"ARCHITECTURE.md", "docs/architecture.md",
                       "docs/architecture/**/*.md", "ADR/*.md", "docs/adr/**/*.md">>],
       [doc_type |-> "api",
        patterns |-> <<"API.md", "docs/api/**/*.md", "openapi.yaml", "swagger.json">>],
       [doc_type |-> "setup",
        patterns |-> <<"INSTALL.md", "SETUP.md", "docs/setup/**/*.md">>],
       [doc_type |-> "changelog",
        patterns |-> <<"CHANGELOG.md", "HISTORY.md", "RELEASES.md">>],
       [doc_type |-> "security",
        patterns |-> <<"SECURITY.md", ".github/SECURITY.md">>],
       [doc_type |-> "license",
        patterns |-> <<"LICENSE", "LICENSE.md", "COPYING">>],
       [doc_type |-> "code_of_conduct",
        patterns |-> <<"CODE_OF_CONDUCT.md", ".github/CODE_OF_CONDUCT.md">>] >>

GetPriority(doc_type) ==
    CASE doc_type = "primary" -> 1
      [] doc_type \in {"architecture", "contributing", "setup"} -> 2
      [] doc_type \in {"api", "security"} -> 3
      [] doc_type = "changelog" -> 4
      [] OTHER -> 5

\* Slip: the file that cannot be read is given no record.
CreateDocumentFileSkipping(file, doc_type) ==
    IF file.content = None THEN << >>
    ELSE << [path |-> file.path, doc_type |-> doc_type, content |-> file.content[1],
             priority |-> GetPriority(doc_type), size_bytes |-> file.size_bytes] >>

\* The records _create_document_file adds for a file (one).
CreateDocumentFile(file, doc_type) ==
    << [path |-> file.path,
        doc_type |-> doc_type,
        content |-> IF file.content = None THEN "" ELSE file.content[1],
        priority |-> GetPriority(doc_type),
        size_bytes |-> file.size_bytes] >>

PatternMatches(pattern, path) ==
    IF Contains("**", pattern) \/ Contains("*", pattern)
    THEN GlobMatch(pattern, path)
    ELSE path = pattern

\* The records one pattern of one category adds to discovered.
PatternDocuments(files, doc_type, pattern) ==
    Flatten([i \in DOMAIN files |->
                IF PatternMatches(pattern, files[i].path)
                THEN CreateDocumentFile(files[i], doc_type)
                ELSE << >>])

\* Slip: the documents are compared by path alone.
DocLessByPath(a, b) == StrLess(a.path, b.path)

DocLess(a, b) ==
    \/ a.priority < b.priority
    \/ a.priority = b.priority /\ StrLess(a.path, b.path)

\* sorted(docs, key=lambda d: (d.priority, d.path)): stable insertion.
RECURSIVE PrioritizeDocuments(_)
PrioritizeDocuments(documents) ==
    IF documents = << >> THEN << >>
    ELSE LET init == PrioritizeDocuments(SubSeq(documents, 1, Len(documents) - 1))
             last == documents[Len(documents)]
             keep == Cardinality({i \in DOMAIN init : ~DocLess(last, init[i])})
         IN  SubSeq(init, 1, keep) \o <<last>> \o SubSeq(init, keep + 1, Len(init))

DiscoverDocumentation(repo) ==
    PrioritizeDocuments(
        Flatten([t \in DOMAIN DOCUMENTATION_PATTERNS |->
            Flatten([p \in DOMAIN DOCUMENTATION_PATTERNS[t].patterns |->
                PatternDocuments(FilesOf(repo),
                                 DOCUMENTATION_PATTERNS[t].doc_type,
                                 DOCUMENTATION_PATTERNS[t].patterns[p])])]))

(***************************************************************************)
(* DocumentationAnalyzer._detect_architecture_pattern                      *)
(***************************************************************************)
patterns ==
    << [name |-> "microservices",
        keywords |-> <<"microservice", "micro-service", "service mesh">>],
       [name |-> "monolith", keywords |-> <<"monolithic", "monolith">>],
       [name |-> "mvc", keywords |-> <<"model-view-controller", "mvc">>],
       [name |-> "mvvm", keywords |-> <<"model-view-viewmodel", "mvvm">>],
       [name |-> "layered",
        keywords |-> <<"layered architecture", "n-tier", "three-tier">>],
       [name |-> "event-driven",
        keywords |-> <<"event-driven", "event sourcing", "cqrs">>],
       [name |-> "serverless", keywords |-> <<"serverless", "lambda", "faas">>],
       [name |-> "hexagonal", keywords |-> <<"hexagonal", "ports and adapters">>] >>

AnyKeywordIn(keywords, text) == \E k \in DOMAIN keywords : Contains(keywords[k], text)

\* Slip: the last entry of the table with a keyword present is taken.
DetectArchitecturePatternLast(content) ==
    LET Last(hits) ==
            IF hits = {} THEN None
            ELSE Some(patterns[CHOOSE i \in hits : \A j \in hits : j <= i].name)
        Hits(content_lower) ==
            Last({i \in DOMAIN patterns :
                     AnyKeywordIn(patterns[i].keywords, content_lower)})
    IN  Hits(Lower(content))

\* Optional[str]
DetectArchitecturePattern(content) ==
    LET First(hits) == IF hits = {} THEN None ELSE Some(patterns[Least(hits)].name)
        Hits(content_lower) ==
            First({i \in DOMAIN patterns :
                      AnyKeywordIn(patterns[i].keywords, content_lower)})
    IN  Hits(Lower(content))

(***************************************************************************)
(* DocumentationAnalyzer._extract_architecture_claims                      *)
(***************************************************************************)
layer_keywords ==
    <<"layer", "tier", "presentation layer", "business layer", "data layer",
      "controller", "service", "repository">>

\* for keyword in layer_keywords: if keyword in content_lower and keyword
\* not in layers: layers.append(keyword)
RECURSIVE AddLayers(_, _, _)
AddLayers(layers, content_lower, k) ==
    IF k > Len(layer_keywords) THEN layers
    ELSE AddLayers(IF Contains(layer_keywords[k], content_lower)
                        /\ layer_keywords[k] \notin Range(layers)
                   THEN Append(layers, layer_keywords[k])
                   ELSE layers,
                   content_lower, k + 1)

\* (?:^|\n) tried at position i: the positions where the rest of the
\* pattern may start, in the order the alternation tries them.
LineStarts(content, i) ==
    (IF i = 1 \/ Char(content, i - 1) = "\n" THEN <<i>> ELSE << >>)
    \o (IF i <= Len(content) /\ Char(content, i) = "\n" THEN <<i + 1>> ELSE << >>)

component_words == <<"Component", "Module", "Service">>

\* [^\n]+? ending at k, then \s+(?:Component|Module|Service): the end of
\* the match and the group, for the least k that matches.
HeadingNameEnd(content, first, k) ==
    LET Hits(word) == {w \in DOMAIN component_words :
                          StartsAt(content, word, component_words[w])}
        Ends(e, word) == word > e + 1 /\ Hits(word) # {}
        Matched(e, word) ==
            Some([stop |-> word + Len(component_words[CHOOSE w \in Hits(word) : TRUE]),
                  group |-> SubSeq(content, first, e)])
        First(ends) ==
            IF ends = {} THEN None
            ELSE Matched(Least(ends), SkipWhile(content, Least(ends) + 1, SpaceChars))
        Line(newline) ==
            First({e \in k..((IF newline = 0 THEN Len(content) + 1 ELSE newline) - 1) :
                      Ends(e, SkipWhile(content, e + 1, SpaceChars))})
    IN  Line(Find(content, "\n", k))

\* #+\s*([A-Z][^\n]+?)\s+(?:Component|Module|Service) at position j
HeadingComponentAt(content, j) ==
    LET Name(hashes, first) ==
            IF hashes > j /\ first <= Len(content) /\ Char(content, first) \in UpperChars
            THEN HeadingNameEnd(content, first, first + 1)
            ELSE None
        Hashes(hashes) == Name(hashes, SkipWhile(content, hashes, SpaceChars))
    IN  Hashes(SkipWhile(content, j, {"#"}))

\* [-*]\s+\*\*([A-Za-z]+?)\*\*\s*: at position j
BulletComponentAt(content, j) ==
    LET Matched(stars, letters, colon) ==
            IF /\ j <= Len(content)
               /\ Char(content, j) \in {"-", "*"}
               /\ stars > j + 1
               /\ StartsAt(content, stars, "**")
               /\ letters > stars + 2
               /\ StartsAt(content, letters, "**")
               /\ colon <= Len(content)
               /\ Char(content, colon) = ":"
            THEN Some([stop |-> colon + 1,
                       group |-> SubSeq(content, stars + 2, letters - 1)])
            ELSE None
        Letters(stars, letters) ==
            Matched(stars, letters, SkipWhile(content, letters + 2, SpaceChars))
        Stars(stars) == Letters(stars, SkipWhile(content, stars + 2, LetterChars))
    IN  Stars(SkipWhile(content, j + 1, SpaceChars))

\* The match of component pattern n (1: heading, 2: bullet) at i, if any.
ComponentMatchAt(content, i, n) ==
    LET First(found) == IF found = << >> THEN None ELSE Some(found[1])
        Tries(tries) ==
            First(Flatten([t \in DOMAIN tries |->
                              IF n = 1 THEN HeadingComponentAt(content, tries[t])
                              ELSE BulletComponentAt(content, tries[t])]))
    IN  Tries(LineStarts(content, i))

\* re.finditer(pattern n, content, re.MULTILINE) from i on: group(1).strip()
\* The scan of the positions i..j, the first half of them and then the rest;
\* st is the position the next match may start at and the matches found.
RECURSIVE ComponentScan(_, _, _, _, _)
ComponentScan(content, i, j, n, st) ==
    IF i > j \/ st.next > j THEN st
    ELSE IF i = j
    THEN LET Matched(m) ==
                 IF m = None THEN st
                 ELSE [next |-> m[1].stop, found |-> Append(st.found, Strip(m[1].group))]
         IN  Matched(ComponentMatchAt(content, i, n))
    ELSE LET Rest(first) ==
                 IF first.next > j THEN first
                 ELSE ComponentScan(content, (i + j) \div 2 + 1, j, n, first)
         IN  Rest(ComponentScan(content, i, (i + j) \div 2, n, st))

ComponentMatches(content, i, n) ==
    ComponentScan(content, i, Len(content) + 1, n, [next |-> i, found |-> << >>]).found

\* The state of the loop over docs: pattern, layers, components,
\* documented_in and self.claims.
RECURSIVE ArchitectureLoop(_, _, _)
ArchitectureLoop(documents, i, st) ==
    IF i > Len(documents) THEN st
    ELSE LET Step(doc, detected, newly) ==
                 ArchitectureLoop(documents, i + 1,
                     [pattern |-> detected,
                      layers |-> AddLayers(st.layers, Lower(doc.content), 1),
                      components |->
                          Dedup(st.components
                                \o ComponentMatches(doc.content, 1, 1)
                                \o ComponentMatches(doc.content, 1, 2)),
                      documented_in |->
                          IF newly THEN Append(st.documented_in, doc.path)
                          ELSE st.documented_in,
                      claims |->
                          IF newly
                          THEN Append(st.claims,
                                      Claim(doc.path, "ARCHITECTURE",
                                            "Architecture pattern: " \o detected[1],
                                            "HIGH"))
                          ELSE st.claims])
             Detected(doc, detected) ==
                 Step(doc, detected, ~TruthyStr(st.pattern) /\ TruthyStr(detected))
             Doc(doc) ==
                 Detected(doc, IF TruthyStr(st.pattern) THEN st.pattern
                               ELSE DetectArchitecturePattern(doc.content))
         IN  Doc(documents[i])

\* The ArchitectureClaims returned and self.claims after the call.
ExtractArchitectureClaims(documents, claims) ==
    LET Returned(st) ==
            [result |-> [pattern |-> st.pattern,
                         layers |-> Take(st.layers, 10),
                         components |-> Take(st.components, 20),
                         data_flow |-> None,
                         documented_in |-> st.documented_in],
             claims |-> st.claims]
    IN  Returned(ArchitectureLoop(documents, 1,
                     [pattern |-> None, layers |-> << >>, components |-> << >>,
                      documented_in |-> << >>, claims |-> claims]))

(***************************************************************************)
(* Iteration of a Python set.  The order in which a set of strings is      *)
(* iterated is fixed by the string hashing of the process: order is a list *)
(* of the strings of the process in that order.                            *)
(***************************************************************************)
SetOrder(S, order) ==
    IF Cardinality(S) <= 1 THEN [i \in 1..Cardinality(S) |-> CHOOSE x \in S : TRUE]
    ELSE SelectSeq(order, LAMBDA x : x \in S)

(***************************************************************************)
(* DocumentationAnalyzer._extract_setup_guide                              *)
(***************************************************************************)
\* re.findall(r"[A-Z_]{3,}=", content) from position i on
EnvVarEnd(content, i) == SkipWhile(content, i, UpperChars \cup {"_"})

\* The scan of the positions i..j, the first half of them and then the rest;
\* st is the position the next match may start at and the matches found.
RECURSIVE EnvVarScan(_, _, _, _)
EnvVarScan(content, i, j, st) ==
    IF i > j \/ st.next > j THEN st
    ELSE IF i = j
    THEN LET Matched(stop) ==
                 IF stop - i >= 3 /\ Char(content, stop) = "="
                 THEN [next |-> stop + 1,
                       found |-> Append(st.found, SubSeq(content, i, stop))]
                 ELSE st
         IN  Matched(EnvVarEnd(content, i))
    ELSE LET Rest(first) ==
                 IF first.next > j THEN first
                 ELSE EnvVarScan(content, (i + j) \div 2 + 1, j, first)
         IN  Rest(EnvVarScan(content, i, (i + j) \div 2, st))

EnvVarsFrom(content, i) ==
    EnvVarScan(content, i, Len(content), [next |-> i, found |-> << >>]).found

\* the items added under "if section:"
ListItemsOf(section) == IF TruthyStr(section) THEN ExtractListItems(section[1]) ELSE << >>
CodeBlocksOf(section) == IF TruthyStr(section) THEN ExtractCodeBlocks(section[1]) ELSE << >>

\* The state of the loop over docs: the five lists and self.claims.
RECURSIVE SetupLoop(_, _, _, _)
SetupLoop(documents, i, st, order) ==
    IF i > Len(documents) THEN st
    ELSE LET Step(doc, prereq_section, build_steps) ==
                 SetupLoop(documents, i + 1,
                     [prerequisites |->
                          st.prerequisites \o ListItemsOf(prereq_section),
                      documented_in |->
                          IF TruthyStr(prereq_section)
                          THEN Append(st.documented_in, doc.path)
                          ELSE st.documented_in,
                      build_steps |-> build_steps,
                      environment_vars |->
                          st.environment_vars
                              \o SetOrder(Range(EnvVarsFrom(doc.content, 1)), order),
                      claims |->
                          IF build_steps # << >>
                          THEN Append(st.claims,
                                      Claim(doc.path, "SETUP",
                                            "Build steps documented ("
                                                \o Str(Len(build_steps)) \o " steps)",
                                            "MEDIUM"))
                          ELSE st.claims],
                     order)
             Build(doc, prereq_section, build_section) ==
                 Step(doc, prereq_section,
                      st.build_steps
                          \o ListItemsOf(build_section)
                          \o CodeBlocksOf(build_section))
             Doc(doc) ==
                 Build(doc,
                       ExtractSection(doc.content,
                                      <<"prerequisite", "requirement", "dependencies">>),
                       ExtractSection(doc.content,
                                      <<"build", "installation", "install", "setup">>))
         IN  Doc(documents[i])

\* The SetupGuide returned and self.claims after the call.
ExtractSetupGuide(documents, claims, order) ==
    LET Returned(st) ==
            [result |->
                 [prerequisites |-> Take(SetOrder(Range(st.prerequisites), order), 20),
                  build_steps |-> Take(st.build_steps, 30),
                  environment_vars |->
                      Take(SetOrder(Range(st.environment_vars), order), 50),
                  deployment_steps |-> << >>,
                  documented_in |-> SetOrder(Range(st.documented_in), order)],
             claims |-> st.claims]
    IN  Returned(SetupLoop(documents, 1,
                     [prerequisites |-> << >>, documented_in |-> << >>,
                      build_steps |-> << >>, environment_vars |-> << >>,
                      claims |-> claims], order))

(***************************************************************************)
(* DocumentationAnalyzer._extract_api_spec                                 *)
(***************************************************************************)
http_methods == <<"GET", "POST", "PUT", "DELETE", "PATCH">>
EndpointChars == WordChars \cup {"/", "-", "{", "}", ":"}

\* (GET|POST|PUT|DELETE|PATCH)\s+([/\w\-{}:]+) at position i
EndpointAt(content, i) ==
    LET Matched(method, path, stop) ==
            IF path > i + Len(method) /\ stop > path
            THEN Some([stop |-> stop, method |-> method,
                       path |-> SubSeq(content, path, stop - 1)])
            ELSE None
        Path(method, path) == Matched(method, path, SkipWhile(content, path, EndpointChars))
        Method(method) == Path(method, SkipWhile(content, i + Len(method), SpaceChars))
        Methods(hits) ==
            IF hits = {} THEN None ELSE Method(http_methods[CHOOSE m \in hits : TRUE])
    IN  Methods({m \in DOMAIN http_methods : StartsAt(content, i, http_methods[m])})

\* re.finditer of endpoint pattern 1 (quoted = FALSE) or 2 (the same between
\* two backticks) from position i on
EndpointMatch(content, i, quoted) ==
    LET Closed(m) ==
            IF m # None /\ (quoted => Char(content, m[1].stop) = Backtick) THEN m ELSE None
    IN  Closed(IF ~quoted \/ Char(content, i) = Backtick
               THEN EndpointAt(content, IF quoted THEN i + 1 ELSE i)
               ELSE None)

\* The scan of the positions i..j, the first half of them and then the rest;
\* st is the position the next match may start at and the matches found.
RECURSIVE EndpointScan(_, _, _, _, _)
EndpointScan(content, i, j, quoted, st) ==
    IF i > j \/ st.next > j THEN st
    ELSE IF i = j
    THEN LET Matched(m) ==
                 IF m = None THEN st
                 ELSE [next |-> IF quoted THEN m[1].stop + 1 ELSE m[1].stop,
                       found |-> Append(st.found,
                                        [method |-> m[1].method, path |-> m[1].path])]
         IN  Matched(EndpointMatch(content, i, quoted))
    ELSE LET Rest(first) ==
                 IF first.next > j THEN first
                 ELSE EndpointScan(content, (i + j) \div 2 + 1, j, quoted, first)
         IN  Rest(EndpointScan(content, i, (i + j) \div 2, quoted, st))

Endpoints(content, i, quoted) ==
    EndpointScan(content, i, Len(content), quoted, [next |-> i, found |-> << >>]).found

\* The api_type after the if/elif chain on one document.
DetectApiType(api_type, content_lower) ==
    IF Contains("graphql", content_lower) THEN Some("GraphQL")
    ELSE IF Contains("grpc", content_lower) THEN Some("gRPC")
    ELSE IF AnyKeywordIn(<<"rest", "api", "endpoint">>, content_lower) THEN Some("REST")
    ELSE api_type

\* The state of the loop over docs: endpoints, api_type, documented_in.
RECURSIVE ApiLoop(_, _, _)
ApiLoop(documents, i, st) ==
    IF i > Len(documents) THEN st
    ELSE LET Step(doc, api_type, endpoints) ==
                 ApiLoop(documents, i + 1,
                     [endpoints |-> endpoints,
                      api_type |-> api_type,
                      documented_in |->
                          IF endpoints # << >> \/ TruthyStr(api_type)
                          THEN Append(st.documented_in, doc.path)
                          ELSE st.documented_in])
             Doc(doc) ==
                 Step(doc,
                      DetectApiType(st.api_type, Lower(doc.content)),
                      st.endpoints \o Endpoints(doc.content, 1, FALSE)
                                   \o Endpoints(doc.content, 1, TRUE))
         IN  Doc(documents[i])

\* Slip: the endpoint list is returned whole.
ExtractApiSpecUncapped(documents, claims) ==
    LET Returned(st) ==
            IF ~TruthyStr(st.api_type) /\ st.endpoints = << >>
            THEN [result |-> None, claims |-> claims]
            ELSE [result |-> Some([endpoints |-> st.endpoints,
                                   api_type |-> st.api_type,
                                   documented_in |-> st.documented_in]),
                  claims |->
                      IF TruthyStr(st.api_type)
                      THEN Append(claims,
                                  Claim(IF st.documented_in # << >>
                                        THEN st.documented_in[1]
                                        ELSE "unknown",
                                        "API", "API type: " \o st.api_type[1], "MEDIUM"))
                      ELSE claims]
    IN  Returned(ApiLoop(documents, 1,
                     [endpoints |-> << >>, api_type |-> None, documented_in |-> << >>]))

\* The Optional[APISpec] returned and self.claims after the call.
ExtractApiSpec(documents, claims) ==
    LET Returned(st) ==
            IF ~TruthyStr(st.api_type) /\ st.endpoints = << >>
            THEN [result |-> None, claims |-> claims]
            ELSE [result |-> Some([endpoints |-> Take(st.endpoints, 50),
                                   api_type |-> st.api_type,
                                   documented_in |-> st.documented_in]),
                  claims |->
                      IF TruthyStr(st.api_type)
                      THEN Append(claims,
                                  Claim(IF st.documented_in # << >>
                                        THEN st.documented_in[1]
                                        ELSE "unknown",
                                        "API", "API type: " \o st.api_type[1], "MEDIUM"))
                      ELSE claims]
    IN  Returned(ApiLoop(documents, 1,
                     [endpoints |-> << >>, api_type |-> None, documented_in |-> << >>]))

(***************************************************************************)
(* DocumentationAnalyzer._extract_coding_standards                         *)
(***************************************************************************)
tools == <<"pylint", "eslint", "rubocop", "black", "prettier", "shellcheck">>

RECURSIVE StandardsLoop(_, _, _)
StandardsLoop(documents, i, st) ==
    IF i > Len(documents) THEN st
    ELSE LET doc == documents[i]
             content_lower == Lower(doc.content)
             styled == Contains("style guide", content_lower)
                           \/ Contains("coding standard", content_lower)
             found == SelectSeq(tools, LAMBDA tool : Contains(tool, content_lower))
         IN  StandardsLoop(documents, i + 1,
                 [style_guide |-> IF styled THEN Some("Documented in " \o doc.path)
                                  ELSE st.style_guide,
                  linting_tools |-> Dedup(st.linting_tools \o found),
                  naming_conventions |-> << >>,
                  documented_in |-> IF styled THEN Append(st.documented_in, doc.path)
                                    ELSE st.documented_in])

\* Optional[CodingStandards]
ExtractCodingStandards(documents) ==
    IF documents = << >> THEN None
    ELSE Some(StandardsLoop(documents, 1,
                  [style_guide |-> None, linting_tools |-> << >>,
                   naming_conventions |-> << >>, documented_in |-> << >>]))

(***************************************************************************)
(* DocumentationAnalyzer._extract_known_issues                             *)
(***************************************************************************)
Issue(title, description, severity, source) ==
    [title |-> title, description |-> description, severity |-> severity,
     source |-> source]

ExtractKnownIssues(documents) ==
    Flatten([i \in DOMAIN documents |->
        LET issues_section ==
                ExtractSection(documents[i].content,
                               <<"known issue", "limitation", "bug", "todo">>)
            items == Take(ListItemsOf(issues_section), 10)
        IN  [k \in DOMAIN items |->
                Issue(Take(items[k], 100), items[k], "INFO", documents[i].path)]])

(***************************************************************************)
(* DocumentationAnalyzer._calculate_completeness                           *)
(***************************************************************************)
weights ==
    << [doc_type |-> "primary", weight |-> 30],
       [doc_type |-> "contributing", weight |-> 15],
       [doc_type |-> "architecture", weight |-> 20],
       [doc_type |-> "setup", weight |-> 15],
       [doc_type |-> "api", weight |-> 10],
       [doc_type |-> "changelog", weight |-> 5],
       [doc_type |-> "license", weight |-> 5] >>

RECURSIVE Sum(_)
Sum(seq) == IF seq = << >> THEN 0 ELSE Head(seq) + Sum(Tail(seq))

CalculateCompleteness(documents) ==
    LET doc_types == {documents[i].doc_type : i \in DOMAIN documents}
        score == Sum([w \in DOMAIN weights |->
                         IF weights[w].doc_type \in doc_types THEN weights[w].weight
                         ELSE 0])
    IN  Min(score, 100)

(***************************************************************************)
(* DocumentationAnalyzer.analyze.  self.claims is the claims list of the   *)
(* analyzer at the call; the analysis returned holds that very list, which *)
(* claims_ref names, and claims is the list when analyze returns.          *)
(***************************************************************************)
OfType(documents, doc_types) ==
    SelectSeq(documents, LAMBDA d : d.doc_type \in doc_types)

\* Each step of analyze is given the values of the steps before it.
Analyze(repo, self_claims, claims_ref, order) ==
    LET Returned(discovered_docs, architecture, setup, api) ==
            [analysis |->
                 [discovered_docs |-> discovered_docs,
                  claimed_architecture |-> Some(architecture.result),
                  setup_instructions |-> Some(setup.result),
                  api_documentation |-> api.result,
                  coding_standards |->
                      ExtractCodingStandards(OfType(discovered_docs, {"contributing"})),
                  known_issues |-> ExtractKnownIssues(discovered_docs),
                  claims |-> claims_ref,
                  completeness_score |-> CalculateCompleteness(discovered_docs)],
             claims |-> api.claims]
        Api(discovered_docs, architecture, setup) ==
            Returned(discovered_docs, architecture, setup,
                     ExtractApiSpec(OfType(discovered_docs, {"api"})
                                        \o OfType(discovered_docs, {"primary"}),
                                    setup.claims))
        Setup(discovered_docs, architecture) ==
            Api(discovered_docs, architecture,
                ExtractSetupGuide(OfType(discovered_docs, {"setup", "primary"}),
                                  architecture.claims, order))
        Architecture(discovered_docs) ==
            Setup(discovered_docs,
                  ExtractArchitectureClaims(OfType(discovered_docs, {"primary"})
                                                \o OfType(discovered_docs, {"architecture"}),
                                            self_claims))
    IN  Architecture(DiscoverDocumentation(repo))

(***************************************************************************)
(* code.py tables.                                                         *)
(***************************************************************************)
LANGUAGE_EXTENSIONS ==
    << <<".py", "Python">>, <<".js", "JavaScript">>, <<".ts", "TypeScript">>,
       <<".jsx", "JavaScript">>, <<".tsx", "TypeScript">>, <<".java", "Java">>,
       <<".cs", "C#">>, <<".go", "Go">>, <<".rb", "Ruby">>, <<".php", "PHP">>,
       <<".rs", "Rust">>, <<".cpp", "C++">>, <<".c", "C">>, <<".h", "C/C++">>,
       <<".hpp", "C++">>, <<".sh", "Shell">>, <<".bash", "Shell">>, <<".sql", "SQL">>,
       <<".kt", "Kotlin">>, <<".swift", "Swift">>, <<".m", "Objective-C">>,
       <<".scala", "Scala">> >>

FRAMEWORK_PATTERNS ==
    << [name |-> "Flask",
        patterns |-> << <<"requirements.txt", "Flask">>, <<"*.py", "from flask import">> >>],
       [name |-> "Django",
        patterns |-> << <<"requirements.txt", "Django">>, <<"*.py", "from django">> >>],
       [name |-> "Express", patterns |-> << <<"package.json", "express">> >>],
       [name |-> "React", patterns |-> << <<"package.json", "react">> >>],
       [name |-> "Vue", patterns |-> << <<"package.json", "vue">> >>],
       [name |-> "Angular", patterns |-> << <<"package.json", "@angular">> >>],
       [name |-> "Spring Boot",
        patterns |-> << <<"pom.xml", "spring-boot">>, <<"build.gradle", "spring-boot">> >>],
       [name |-> ".NET Core", patterns |-> << <<"*.csproj", "Microsoft.NET.Sdk">> >>],
       [name |-> "Rails", patterns |-> << <<"Gemfile", "rails">> >>] >>

DEPENDENCY_FILES ==
    << <<"Python", <<"requirements.txt", "setup.py", "Pipfile", "pyproject.toml">> >>,
       <<"JavaScript", <<"package.json", "yarn.lock", "package-lock.json">> >>,
       <<"Java", <<"pom.xml", "build.gradle">> >>,
       <<"C#", <<"*.csproj", "packages.config">> >>,
       <<"Go", <<"go.mod", "go.sum">> >>,
       <<"Ruby", <<"Gemfile", "Gemfile.lock">> >>,
       <<"Rust", <<"Cargo.toml", "Cargo.lock">> >> >>

\* table.get(key, default) for a table of <<key, value>> pairs
Get(table, key, default) ==
    LET hits == {i \in DOMAIN table : table[i][1] = key}
    IN  IF hits = {} THEN default ELSE table[CHOOSE i \in hits : TRUE][2]

(***************************************************************************)
(* Paths: os.walk, Path.suffix, Path.glob                                  *)
(***************************************************************************)
\* The last position of sub in s, or 0: s.rfind(sub) + 1
RFind(s, sub) ==
    LET hits == {j \in 1..(Len(s) - Len(sub) + 1) : StartsAt(s, j, sub)}
    IN  IF hits = {} THEN 0 ELSE CHOOSE i \in hits : \A j \in hits : j <= i

\* The directory part of a relative path, "" for a file of the root.
DirName(path) == SubSeq(path, 1, RFind(path, "/") - 1)

\* The root os.walk(repo_path) yields for the directory of a file.
WalkRoot(repo, file) ==
    IF DirName(file.path) = "" THEN repo.root ELSE repo.root \o "/" \o DirName(file.path)

\* Path(name).suffix
Suffix(name) ==
    LET dot == RFind(name, ".")
    IN  IF 1 < dot /\ dot < Len(name) THEN From(name, dot) ELSE ""

\* The files os.walk reaches in directories whose root holds none of skips.
WalkFiles(repo, skips) ==
    SelectSeq(FilesOf(repo),
              LAMBDA f : ~\E k \in DOMAIN skips : Contains(skips[k], WalkRoot(repo, f)))

\* list(repo_root.glob("**/" + pattern)) with is_file(), or the one file
\* repo_root / pattern when it exists; pattern is a name or "*" and a suffix.
FindFiles(repo, pattern) ==
    SelectSeq(FilesOf(repo),
              LAMBDA f : IF Contains("*", pattern)
                         THEN EndsWith(BaseName(f.path), From(pattern, 2))
                         ELSE f.path = pattern)

(***************************************************************************)
(* CodeAnalyzer._detect_languages                                          *)
(***************************************************************************)
\* sum(1 for _ in f_handle)
LineCount(content) ==
    Cardinality({i \in 1..Len(content) : Char(content, i) = "\n"})
    + (IF content # "" /\ Char(content, Len(content)) # "\n" THEN 1 ELSE 0)

\* Counter.most_common(): by count, largest first, ties in insertion order.
\* items are the <<key, count>> pairs of the counter in insertion order.
RECURSIVE MostCommon(_)
MostCommon(items) ==
    IF items = << >> THEN << >>
    ELSE LET init == MostCommon(SubSeq(items, 1, Len(items) - 1))
             last == items[Len(items)]
             keep == Cardinality({i \in DOMAIN init : init[i][2] >= last[2]})
         IN  SubSeq(init, 1, keep) \o <<last>> \o SubSeq(init, keep + 1, Len(init))

Language(name, percentage, file_count, line_count) ==
    [name |-> name, percentage |-> percentage, file_count |-> file_count,
     line_count |-> line_count]

\* percentage is count / total_files * 100 as the fraction it is.
DetectLanguages(repo) ==
    LET walked == WalkFiles(repo, <<".git", "node_modules", "venv", "__pycache__",
                                    "build", "dist">>)
        Ext(f) == Lower(Suffix(BaseName(f.path)))
        matched == SelectSeq(walked, LAMBDA f : Get(LANGUAGE_EXTENSIONS, Ext(f), "") # "")
        Count(ext) == Len(SelectSeq(matched, LAMBDA f : Ext(f) = ext))
        Lines(ext) ==
            Sum([i \in DOMAIN matched |->
                    IF Ext(matched[i]) = ext /\ matched[i].content # None
                    THEN LineCount(matched[i].content[1]) ELSE 0])
        seen == Dedup([i \in DOMAIN matched |-> Ext(matched[i])])
        extension_counts == MostCommon([i \in DOMAIN seen |-> <<seen[i], Count(seen[i])>>])
        total_files == Len(matched)
    IN  [i \in DOMAIN extension_counts |->
            Language(Get(LANGUAGE_EXTENSIONS, extension_counts[i][1], ""),
                     [numerator |-> extension_counts[i][2] * 100,
                      denominator |-> total_files],
                     extension_counts[i][2],
                     Lines(extension_counts[i][1]))]

(***************************************************************************)
(* CodeAnalyzer._detect_frameworks and _search_for_pattern                 *)
(***************************************************************************)
SearchForPattern(repo, file_pattern, search_term) ==
    LET files == FindFiles(repo, file_pattern)
    IN  \E i \in DOMAIN files :
           /\ files[i].content # None
           /\ Contains(Lower(search_term), Lower(files[i].content[1]))

DetectFrameworks(repo) ==
    LET found == SelectSeq(FRAMEWORK_PATTERNS,
                     LAMBDA fw : \E k \in DOMAIN fw.patterns :
                                    SearchForPattern(repo, fw.patterns[k][1],
                                                     fw.patterns[k][2]))
    IN  [i \in DOMAIN found |->
            [name |-> found[i].name, version |-> None, confidence |-> 8]]

(***************************************************************************)
(* CodeAnalyzer._find_entry_points and _is_valid_source_path               *)
(***************************************************************************)
entry_patterns ==
    << <<"main.py", "Python main script">>, <<"app.py", "Python application">>,
       <<"server.py", "Python server">>, <<"index.js", "JavaScript entry point">>,
       <<"server.js", "JavaScript server">>, <<"main.js", "JavaScript main">>,
       <<"Main.java", "Java main class">>, <<"Program.cs", "C# program">>,
       <<"main.go", "Go main">> >>

excluded == <<"node_modules", "venv", ".git", "__pycache__", "build", "dist", "test">>

\* path_str is str(path): the root and the relative path.
IsValidSourcePath(path_str) == ~\E k \in DOMAIN excluded : Contains(excluded[k], path_str)

FindEntryPoints(repo) ==
    Take(Flatten([p \in DOMAIN entry_patterns |->
             LET files == SelectSeq(FilesOf(repo),
                              LAMBDA f : /\ BaseName(f.path) = entry_patterns[p][1]
                                         /\ IsValidSourcePath(repo.root \o "/" \o f.path))
             IN  [i \in DOMAIN files |->
                     [path |-> files[i].path, entry_type |-> "main",
                      description |-> entry_patterns[p][2]]]]), 10)

(***************************************************************************)
(* CodeAnalyzer._build_directory_tree.  The directories of a repository    *)
(* are those that hold its files.                                          *)
(***************************************************************************)
pruned == {".git", "node_modules", "venv", "__pycache__"}

\* The directories on the way from the root to a relative path.
Ancestors(path) ==
    {SubSeq(path, 1, j - 1) : j \in {k \in 1..Len(path) : Char(path, k) = "/"}}

\* os.walk does not descend into a directory removed from dirs.
Walked(path) == \A a \in Ancestors(path) : BaseName(a) \notin pruned

BuildDirectoryTree(repo) ==
    LET files == FilesOf(repo)
        dirs == UNION {Ancestors(files[i].path) : i \in DOMAIN files}
    IN  [root |-> repo.root,
         total_files |-> Len(SelectSeq(files, LAMBDA f : Walked(f.path))),
         total_dirs |-> Cardinality({d \in dirs : Walked(d) /\ BaseName(d) \notin pruned})]

(***************************************************************************)
(* CodeAnalyzer._parse_dependency_file                                     *)
(***************************************************************************)
NameChars == (WordChars \cup {"-"})
version_operators == {"==", ">=", "<="}

\* re.match(r"([a-zA-Z0-9\-_]+)(==|>=|<=)?(.+)?", line): the dependencies
\* a stripped line of requirements.txt adds.
RequirementOf(line, source_file) ==
    LET stop == SkipWhile(line, 1, NameChars)
        rest == IF SubSeq(line, stop, Min(stop + 1, Len(line))) \in version_operators
                THEN From(line, stop + 2)
                ELSE From(line, stop)
    IN  IF line = "" \/ StartsAt(line, 1, "#") \/ stop = 1 THEN << >>
        ELSE << [name |-> SubSeq(line, 1, stop - 1),
                 version |-> IF rest = "" THEN None ELSE Some(rest),
                 dependency_type |-> "production",
                 source_file |-> source_file] >>

\* json.loads for the texts of manifests: objects whose values are strings
\* or such objects; None for a text that is not JSON.  A value is
\* [items |-> the <<key, value>> pairs of an object] or [text |-> a string].
JsonString(text, i) ==
    LET close == Find(text, "\"", i + 1)
    IN  IF Char(text, i) = "\"" /\ close # 0
        THEN Some([value |-> SubSeq(text, i + 1, close - 1), next |-> close + 1])
        ELSE None

\* dict[key] = value
DictSet(items, key, value) ==
    IF \E i \in DOMAIN items : items[i][1] = key
    THEN [i \in DOMAIN items |-> IF items[i][1] = key THEN <<key, value>> ELSE items[i]]
    ELSE Append(items, <<key, value>>)

RECURSIVE JsonValue(_, _)
RECURSIVE JsonMembers(_, _, _)
JsonValue(text, i) ==
    LET start == SkipWhile(text, i, SpaceChars)
        string == JsonString(text, start)
        first == SkipWhile(text, start + 1, SpaceChars)
    IN  IF Char(text, start) = "\""
        THEN IF string = None THEN None
             ELSE Some([value |-> [text |-> string[1].value], next |-> string[1].next])
        ELSE IF Char(text, start) # "{" THEN None
        ELSE IF Char(text, first) = "}"
        THEN Some([value |-> [items |-> << >>], next |-> first + 1])
        ELSE JsonMembers(text, first, << >>)

\* The members of an object from the key at i on, after the pairs in items.
JsonMembers(text, i, items) ==
    LET key == JsonString(text, i)
        colon == SkipWhile(text, key[1].next, SpaceChars)
        value == JsonValue(text, colon + 1)
        after == SkipWhile(text, value[1].next, SpaceChars)
        added == DictSet(items, key[1].value, value[1].value)
    IN  IF key = None \/ Char(text, colon) # ":" \/ value = None THEN None
        ELSE IF Char(text, after) = "}"
        THEN Some([value |-> [items |-> added], next |-> after + 1])
        ELSE IF Char(text, after) = ","
        THEN JsonMembers(text, SkipWhile(text, after + 1, SpaceChars), added)
        ELSE None

JsonLoads(text) ==
    LET value == JsonValue(text, 1)
    IN  IF value # None /\ SkipWhile(text, value[1].next, SpaceChars) > Len(text)
        THEN Some(value[1].value)
        ELSE None

\* The dependencies of one section of package.json.
PackageDependencies(data, dep_type, source_file) ==
    LET section == Get(data.items, dep_type, [items |-> << >>]).items
    IN  [i \in DOMAIN section |->
            [name |-> section[i][1],
             version |-> Some(IF "text" \in DOMAIN section[i][2] THEN section[i][2].text
                              ELSE section[i][2]),
             dependency_type |-> IF dep_type = "dependencies" THEN "production"
                                 ELSE "development",
             source_file |-> source_file]]

ParseDependencyFile(file) ==
    LET name == BaseName(file.path)
        lines == SplitLines(file.content[1])
        data == JsonLoads(file.content[1])
    IN  IF file.content = None THEN << >>
        ELSE IF name = "requirements.txt"
        THEN Flatten([i \in DOMAIN lines |-> RequirementOf(Strip(lines[i]), name)])
        ELSE IF name = "package.json" /\ data # None
        THEN PackageDependencies(data[1], "dependencies", name)
                 \o PackageDependencies(data[1], "devDependencies", name)
        ELSE << >>

(***************************************************************************)
(* CodeAnalyzer._analyze_dependencies                                      *)
(***************************************************************************)
AnalyzeDependencies(repo, structure) ==
    IF structure.languages = << >> THEN << >>
    ELSE LET primary_lang == structure.languages[1].name
             dep_files == Get(DEPENDENCY_FILES, primary_lang, << >>)
         IN  Flatten([p \in DOMAIN dep_files |->
                 LET files == FindFiles(repo, dep_files[p])
                 IN  Flatten([i \in DOMAIN files |-> ParseDependencyFile(files[i])])])

(***************************************************************************)
(* CodeAnalyzer._check_for_todos                                           *)
(***************************************************************************)
todo_words == <<"todo", "fixme", "hack", "xxx">>

\* #\s*(TODO|FIXME|HACK|XXX):\s*(.+) with re.IGNORECASE at the "#" at i
TodoAt(line, i) ==
    LET word == SkipWhile(line, i + 1, SpaceChars)
        hits == {w \in DOMAIN todo_words :
                    Lower(SubSeq(line, word, Min(word + Len(todo_words[w]) - 1, Len(line))))
                        = todo_words[w]}
        colon == word + Len(todo_words[CHOOSE w \in hits : TRUE])
    IN  IF Char(line, i) = "#" /\ hits # {} /\ Char(line, colon) = ":"
              /\ colon < Len(line)
        THEN Some([todo_type |-> SubSeq(line, word, colon - 1),
                   description |-> Strip(From(line, colon + 1))])
        ELSE None

\* todo_pattern.search(line)
TodoSearch(line) ==
    LET starts == {i \in 1..Len(line) : TodoAt(line, i) # None}
    IN  IF starts = {} THEN None ELSE TodoAt(line, Least(starts))

\* The files a quality scan opens: Path(file).suffix in LANGUAGE_EXTENSIONS
ScannedFiles(repo) ==
    SelectSeq(WalkFiles(repo, <<".git", "node_modules", "venv">>),
              LAMBDA f : Get(LANGUAGE_EXTENSIONS, Suffix(BaseName(f.path)), "") # "")

FileTodos(file) ==
    IF file.content = None THEN << >>
    ELSE LET lines == SplitLines(file.content[1])
         IN  Flatten([n \in DOMAIN lines |->
                 LET match == TodoSearch(lines[n])
                 IN  IF match = None THEN << >>
                     ELSE << Issue(match[1].todo_type \o " in " \o file.path \o ":" \o Str(n),
                                   match[1].description, "LOW", file.path) >>])

CheckForTodos(repo) ==
    LET files == ScannedFiles(repo)
    IN  Take(Flatten([i \in DOMAIN files |-> FileTodos(files[i])]), 100)

(***************************************************************************)
(* CodeAnalyzer._check_for_security_issues                                 *)
(***************************************************************************)
secret_patterns ==
    << [words |-> <<"password">>, description |-> "Hardcoded password"],
       [words |-> <<"apikey", "api_key", "api-key">>, description |-> "Hardcoded API key"],
       [words |-> <<"secret">>, description |-> "Hardcoded secret"] >>

\* word\s*=\s*['"](.+)['"] with re.IGNORECASE at position i
SecretAt(content, i, word) ==
    LET equals == SkipWhile(content, i + Len(word), SpaceChars)
        open == SkipWhile(content, equals + 1, SpaceChars)
        newline == Find(content, "\n", open + 1)
        line_end == IF newline = 0 THEN Len(content) ELSE newline - 1
    IN  /\ Lower(SubSeq(content, i, Min(i + Len(word) - 1, Len(content)))) = word
        /\ Char(content, equals) = "="
        /\ Char(content, open) \in {"'", "\""}
        /\ \E close \in (open + 2)..line_end : Char(content, close) \in {"'", "\""}

\* re.search(pattern, content, re.IGNORECASE)
SecretSearch(content, words) ==
    \E w \in DOMAIN words : \E i \in 1..Len(content) : SecretAt(content, i, words[w])

FileSecrets(file) ==
    IF file.content = None THEN << >>
    ELSE LET found == SelectSeq(secret_patterns,
                          LAMBDA p : SecretSearch(file.content[1], p.words))
         IN  [k \in DOMAIN found |->
                 Issue("Potential " \o found[k].description, "Found in " \o file.path,
                       "HIGH", file.path)]

CheckForSecurityIssues(repo) ==
    LET files == ScannedFiles(repo)
    IN  Take(Flatten([i \in DOMAIN files |-> FileSecrets(files[i])]), 20)

(***************************************************************************)
(* CodeAnalyzer.analyze                                                    *)
(***************************************************************************)
AnalyzeStructure(repo) ==
    [languages |-> DetectLanguages(repo),
     frameworks |-> DetectFrameworks(repo),
     entry_points |-> FindEntryPoints(repo),
     directory_tree |-> Some(BuildDirectoryTree(repo))]

AnalyzeCode(repo) ==
    LET Returned(structure) ==
            [structure |-> Some(structure),
             dependencies |-> AnalyzeDependencies(repo, structure),
             complexity_metrics |-> << >>,
             quality_issues |-> CheckForTodos(repo) \o CheckForSecurityIssues(repo)]
    IN  Returned(AnalyzeStructure(repo))

(***************************************************************************)
(* PromptGenerator.generate_all_phases.  A prompt is its id and its phase; *)
(* analysis is the RepositoryAnalysis, its parts Optional.                 *)
(***************************************************************************)
Prompt(prompt_id, phase) == [prompt_id |-> prompt_id, phase |-> phase]

GeneratePhase0Documentation(analysis) ==
    IF analysis.documentation = None THEN << >>
    ELSE LET d == analysis.documentation[1]
             arch_docs == OfType(d.discovered_docs, {"architecture"})
         IN  <<Prompt("0.1", 0)>>
             \o (IF arch_docs # << >> THEN <<Prompt("0.2", 0)>> ELSE << >>)
             \o (IF d.setup_instructions # None THEN <<Prompt("0.3", 0)>> ELSE << >>)

GeneratePhase1Architecture(analysis) ==
    IF analysis.code = None \/ analysis.documentation = None THEN << >>
    ELSE <<Prompt("1.1", 1)>>
         \o (IF analysis.code[1].dependencies # << >> THEN <<Prompt("1.2", 1)>> ELSE << >>)

GeneratePhase2Implementation(analysis) ==
    IF analysis.code = None THEN << >> ELSE <<Prompt("2.1", 2), Prompt("2.2", 2)>>

GeneratePhase3Workflow(analysis) ==
    IF analysis.documentation = None \/ analysis.validation = None THEN << >>
    ELSE <<Prompt("3.1", 3), Prompt("3.2", 3)>>

GeneratePhase4Remediation(analysis) == <<Prompt("4.1", 4)>>

GenerateAllPhases(analysis) ==
    [phase0 |-> GeneratePhase0Documentation(analysis),
     phase1 |-> GeneratePhase1Architecture(analysis),
     phase2 |-> GeneratePhase2Implementation(analysis),
     phase3 |-> GeneratePhase3Workflow(analysis),
     phase4 |-> GeneratePhase4Remediation(analysis)]

\* PromptCollection.all_prompts
AllPrompts(prompts) ==
    prompts.phase0 \o prompts.phase1 \o prompts.phase2 \o prompts.phase3 \o prompts.phase4

(***************************************************************************)
(* Inputs.                                                                 *)
(***************************************************************************)
RECURSIVE SubLists(_)
\* Every list obtained from seq by dropping elements.
SubLists(seq) ==
    IF seq = << >> THEN {<< >>}
    ELSE LET rest == SubLists(Tail(seq))
         IN  rest \cup {<<Head(seq)>> \o x : x \in rest}

Framework(name) == [name |-> name, version |-> None]
EntryPoint(path) == [path |-> path, entry_type |-> "main"]
DependencyInfo(name) == [name |-> name, dependency_type |-> "production"]

ArchitectureClaims(pattern, components) ==
    [pattern |-> pattern, components |-> components]
SetupGuide(prerequisites) == [prerequisites |-> prerequisites]
APISpec(api_type) == [api_type |-> api_type]

DocumentationAnalysis(discovered_docs, claimed_architecture, setup_instructions, api_documentation, claims) ==
    [discovered_docs |-> discovered_docs,
     claimed_architecture |-> claimed_architecture,
     setup_instructions |-> setup_instructions,
     api_documentation |-> api_documentation,
     claims |-> claims]

CodeStructure(languages, frameworks, entry_points) ==
    [languages |-> languages, frameworks |-> frameworks, entry_points |-> entry_points]

CodeAnalysis(structure, dependencies) ==
    [structure |-> structure, dependencies |-> dependencies]

ArchMvcClaim == Claim("README.md", "ARCHITECTURE", "Architecture pattern: mvc", "HIGH")
ArchMicroClaim ==
    Claim("README.md", "ARCHITECTURE", "Architecture pattern: microservices", "HIGH")
ArchHexClaim ==
    Claim("ARCHITECTURE.md", "ARCHITECTURE", "Architecture pattern: hexagonal", "HIGH")
SetupClaim == Claim("README.md", "SETUP", "Build steps documented (1 steps)", "MEDIUM")
ApiClaim == Claim("API.md", "API", "API type: GraphQL", "MEDIUM")

\* _calculate_drift_severity reads validation_status and severity only.
ResultPool ==
    {[validation_status |-> "VALID", severity |-> "MEDIUM"],
     [validation_status |-> "PARTIAL", severity |-> "MEDIUM"],
     [validation_status |-> "INVALID", severity |-> "LOW"],
     [validation_status |-> "UNTESTABLE", severity |-> "INFO"],
     [validation_status |-> "INVALID", severity |-> "CRITICAL"],
     [validation_status |-> "VALID", severity |-> "HIGH"]}

PatternPool == {None, Some("mvc"), Some("microservices"), Some("hexagonal")}
ComponentPool == {"Auth", "Server"}
EntryPointLists == SubLists(<<EntryPoint("server.py"), EntryPoint("src/auth/main.py")>>)
FrameworkLists ==
    {<< >>, <<Framework("Django")>>, <<Framework("Express")>>,
     <<Framework("React"), Framework("Spring Boot")>>}
ArchClaimLists ==
    {<< >>, <<SetupClaim>>, <<ArchMvcClaim>>, <<ArchMicroClaim>>,
     <<SetupClaim, ArchHexClaim>>, <<ArchMicroClaim, ArchMvcClaim>>,
     <<ArchHexClaim, ArchMicroClaim, SetupClaim>>}

PrereqBase ==
    <<"Python", "python", "Docker", "Node.js", "Make", "git", "requests", "Redis">>
DependencyLists ==
    {<< >>, <<DependencyInfo("Flask")>>,
     <<DependencyInfo("Requests"), DependencyInfo("Flask")>>,
     <<DependencyInfo("python-dateutil")>>}
SetupClaimLists ==
    {<< >>, <<ArchMvcClaim>>, <<SetupClaim>>, <<ArchMvcClaim, SetupClaim, SetupClaim>>}

ApiTypePool == {None, Some("GraphQL"), Some("graphql"), Some("REST"), Some("gRPC")}
ApiFrameworkLists ==
    {<< >>, <<Framework("Express")>>, <<Framework("GraphQL Yoga")>>,
     <<Framework("Flask"), Framework("apollo-graphql")>>}
ApiClaimLists == {<< >>, <<ArchMvcClaim>>, <<ApiClaim>>, <<SetupClaim, ApiClaim>>}

NoDocs == DocumentationAnalysis(<< >>, None, None, None, << >>)
NoCode == CodeAnalysis(None, << >>)

ArchInputs ==
    { <<DocumentationAnalysis(<< >>, a, None, None, cl), CodeAnalysis(st, << >>)>> :
        a \in {None} \cup {Some(ArchitectureClaims(p, co)) :
                              p \in PatternPool,
                              co \in SeqsUpTo(ComponentPool, MaxComponents)},
        cl \in ArchClaimLists,
        st \in {None} \cup {Some(CodeStructure(<< >>, f, e)) :
                               f \in FrameworkLists, e \in EntryPointLists} }

SetupInputs ==
    { <<DocumentationAnalysis(<< >>, None, s, None, cl), CodeAnalysis(None, de)>> :
        s \in {None} \cup {Some(SetupGuide(pr)) :
                              pr \in {x \in SubLists(PrereqBase) : Len(x) <= MaxPrereqs}},
        cl \in SetupClaimLists,
        de \in DependencyLists }

ApiInputs ==
    { <<DocumentationAnalysis(<< >>, None, None, a, cl), CodeAnalysis(st, << >>)>> :
        a \in {None} \cup {Some(APISpec(t)) : t \in ApiTypePool},
        cl \in ApiClaimLists,
        st \in {None} \cup {Some(CodeStructure(<< >>, f, << >>)) : f \in ApiFrameworkLists} }

\* Documentation that claims an architecture, a setup and an API at once.
CombinedInputs ==
    { <<DocumentationAnalysis(<< >>, Some(ArchitectureClaims(p, co)), Some(SetupGuide(pr)),
                              Some(APISpec(t)), cl),
        CodeAnalysis(Some(CodeStructure(<< >>, f, << >>)), de)>> :
        p \in {None, Some("mvc")},
        co \in {<< >>, <<"Auth">>},
        pr \in {<< >>, <<"Docker", "Node.js", "Redis">>},
        t \in {Some("GraphQL"), Some("REST")},
        cl \in {<<ArchMvcClaim, SetupClaim, ApiClaim>>, <<SetupClaim>>},
        f \in {<< >>, <<Framework("Django")>>},
        de \in {<< >>, <<DependencyInfo("Flask")>>} }

\* No web server is started.
NoServer ==
    /\ analysis_cache = << >>
    /\ requests = {}
    /\ responses = << >>

\* No orchestrator is constructed.
NoPipeline ==
    /\ hash_order = << >>
    /\ claims_of = << >>
    /\ frame = None
    /\ events = << >>
    /\ returned = << >>

(***************************************************************************)
(* _calculate_drift_severity applied to any three result lists.            *)
(***************************************************************************)
InitSeverity ==
    /\ NoServer
    /\ arch_drift \in SeqsUpTo(ResultPool, MaxArchResults)
    /\ setup_drift \in SeqsUpTo(ResultPool, MaxSetupResults)
    /\ api_drift \in SeqsUpTo(ResultPool, MaxApiResults)
    /\ drift_severity = None
    /\ docs = NoDocs
    /\ code = NoCode
    /\ report = None
    /\ NoPipeline

CalculateDriftSeverityCall ==
    /\ drift_severity = None
    /\ drift_severity' = Some(CalculateDriftSeverity(arch_drift, setup_drift, api_drift))
    /\ UNCHANGED <<arch_drift, setup_drift, api_drift, docs, code, report>>
    /\ UNCHANGED pipeline_vars
    /\ UNCHANGED web_vars

NextSeverity == CalculateDriftSeverityCall

SpecSeverity == InitSeverity /\ [][NextSeverity]_vars

(***************************************************************************)
(* validate applied to documentation and code analyses.                    *)
(***************************************************************************)
InitValidate ==
    /\ NoServer
    /\ \E input \in ArchInputs \cup SetupInputs \cup ApiInputs \cup CombinedInputs :
          /\ docs = input[1]
          /\ code = input[2]
    /\ report = None
    /\ arch_drift = << >>
    /\ setup_drift = << >>
    /\ api_drift = << >>
    /\ drift_severity = None
    /\ NoPipeline

ValidateCall ==
    /\ report = None
    /\ \E missing_deps \in Orders(MissingDeps(docs, code)) :
       \E detected_frameworks \in Orders(DetectedFrameworks(code)) :
          report' = Some(Validate(docs, code, missing_deps, detected_frameworks))
    /\ UNCHANGED <<arch_drift, setup_drift, api_drift, drift_severity, docs, code>>
    /\ UNCHANGED pipeline_vars
    /\ UNCHANGED web_vars

NextValidate == ValidateCall

SpecValidate == InitValidate /\ [][NextValidate]_vars

(***************************************************************************)
(* AnalysisOrchestrator.run_full_analysis: calls, one after the other, on  *)
(* the orchestrators of one process and the repositories below.            *)
(***************************************************************************)
NumOrchestrators == 2
MaxRuns == 2
MaxDuration == 1

Orchestrators == 1..NumOrchestrators
\* time.time() - start_time, in hundredths of a second
Durations == 0..MaxDuration

RepoMissing == Repository("/srv/missing", FALSE, << >>)

RepoNoDocs == Repository("/srv/tool", TRUE, <<File("main.py", Some("print(1)\n"), 9)>>)

RepoMicro ==
    Repository("/srv/shop", TRUE,
        << File("README.md",
                Some("# Shop\n\nWe run microservices.\n\n## Installation\n\n~~~bash\nnpm install\n~~~\n"),
                72),
           File("package.json", Some("{\"dependencies\": {\"express\": \"^4\"}}"), 35),
           File("index.js", Some("# TODO: tidy\n"), 13) >>)

RepoMvc ==
    Repository("/srv/app", TRUE,
        << File("README.md",
                Some("# App\n\nClassic MVC.\n\n## Prerequisites\n\n- python\n- redis\n- docker\n\n## Setup\n\n- run make\n"),
                87),
           File("ARCHITECTURE.md", None, 3),
           File("requirements.txt", Some("flask==2.0\n"), 11),
           File("app.py", Some("from flask import Flask\n"), 24) >>)

Repositories == {RepoMissing, RepoNoDocs, RepoMicro, RepoMvc}

\* The strings of the sets of more than one string that the runs iterate.
HashedStrings == {"python", "redis", "docker"}

\* report_progress(message)
Progress(message) == [message |-> message]
\* a stage of the pipeline was called and has returned
Stage(stage) == [stage |-> stage]

\* f"{duration:.2f}" for a duration in hundredths
Format2f(duration) ==
    Str(duration \div 100) \o "." \o Str((duration % 100) \div 10) \o Str(duration % 10)

\* The value of a DocumentationAnalysis whose claims field names the list of
\* an analyzer: the list as it is now.
WithClaims(doc_analysis, claims) == [doc_analysis EXCEPT !.claims = claims]

\* Slip: validate is handed a code analysis other than the one of this run.
ValidateAgainstEmptyCode(doc_analysis, code_analysis, order) ==
    LET c == [code_analysis EXCEPT !.structure = None, !.dependencies = << >>]
    IN  Validate(doc_analysis, c, SetOrder(MissingDeps(doc_analysis, c), order),
                 SetOrder(DetectedFrameworks(c), order))

\* Slip: the engine keeps its architecture results from one call to the next.
ValidateResultsAccumulating(doc_analysis, code_analysis, order) ==
    LET Kept(result) ==
            IF report = None THEN result
            ELSE [result EXCEPT !.architecture_drift =
                                    report[1].architecture_drift \o @]
    IN  Kept(Validate(doc_analysis, code_analysis,
                      SetOrder(MissingDeps(doc_analysis, code_analysis), order),
                      SetOrder(DetectedFrameworks(code_analysis), order)))

\* self.validation_engine.validate(docs=doc_analysis, code=code_analysis)
ValidateResults(doc_analysis, code_analysis, order) ==
    Validate(doc_analysis, code_analysis,
             SetOrder(MissingDeps(doc_analysis, code_analysis), order),
             SetOrder(DetectedFrameworks(code_analysis), order))

RepositoryAnalysis(repository_path, documentation, code_, validation, prompts, duration) ==
    [repository_path |-> repository_path, documentation |-> documentation,
     code |-> code_, validation |-> validation, prompts |-> prompts,
     analysis_duration_seconds |-> duration]

InitPipeline ==
    /\ NoServer
    /\ hash_order \in Orders(HashedStrings)
    /\ claims_of = [o \in Orchestrators |-> << >>]
    /\ frame = None
    /\ events = << >>
    /\ returned = << >>
    /\ arch_drift = << >>
    /\ setup_drift = << >>
    /\ api_drift = << >>
    /\ drift_severity = None
    /\ docs = NoDocs
    /\ code = NoCode
    /\ report = None

\* The log of the call in progress gets the entries added.
Log(added) == [events EXCEPT ![Len(events)] = @ \o added]

\* run_full_analysis is called: orchestrator.py lines 46-55
RunFullAnalysis(self, repo) ==
    /\ frame = None
    /\ Len(events) < MaxRuns
    /\ frame' = Some([self |-> self, repo |-> repo, pc |-> "documentation",
                      doc_analysis |-> None, code_analysis |-> None,
                      validation_results |-> None])
    /\ events' = Append(events, <<Progress("Phase 0: Analyzing documentation...")>>)
    /\ UNCHANGED <<hash_order, claims_of, returned>>
    /\ UNCHANGED validation_vars
    /\ UNCHANGED web_vars

\* orchestrator.py lines 56-65
DocumentationStage ==
    /\ frame # None
    /\ frame[1].pc = "documentation"
    /\ LET Returned(self, result) ==
               /\ claims_of' = [claims_of EXCEPT ![self] = result.claims]
               /\ frame' = Some([frame[1] EXCEPT !.pc = "code",
                                                 !.doc_analysis = Some(result.analysis)])
               /\ events' =
                      Log(<<Stage("documentation"),
                            Progress("  Found "
                                         \o Str(Len(result.analysis.discovered_docs))
                                         \o " documentation files"),
                            Progress("  Extracted " \o Str(Len(result.claims))
                                         \o " testable claims"),
                            Progress("Phase 1-2: Analyzing code structure...")>>)
       IN  Returned(frame[1].self,
                    Analyze(frame[1].repo, claims_of[frame[1].self], frame[1].self,
                            hash_order))
    /\ UNCHANGED <<hash_order, returned>>
    /\ UNCHANGED validation_vars
    /\ UNCHANGED web_vars

\* orchestrator.py lines 66-79
CodeStage ==
    /\ frame # None
    /\ frame[1].pc = "code"
    /\ LET Returned(code_analysis) ==
               /\ frame' = Some([frame[1] EXCEPT !.pc = "validation",
                                                 !.code_analysis = Some(code_analysis)])
               /\ events' =
                      Log(<<Stage("code")>>
                          \o (IF code_analysis.structure # None
                              THEN <<Progress("  Detected "
                                         \o Str(Len(code_analysis.structure[1].languages))
                                         \o " languages"),
                                     Progress("  Detected "
                                         \o Str(Len(code_analysis.structure[1].frameworks))
                                         \o " frameworks")>>
                              ELSE << >>)
                          \o <<Progress("  Found "
                                            \o Str(Len(code_analysis.quality_issues))
                                            \o " quality issues"),
                               Progress("Validation: Comparing documentation vs code...")>>)
       IN  Returned(AnalyzeCode(frame[1].repo))
    /\ UNCHANGED <<hash_order, claims_of, returned>>
    /\ UNCHANGED validation_vars
    /\ UNCHANGED web_vars

\* orchestrator.py lines 80-96
ValidationStage ==
    /\ frame # None
    /\ frame[1].pc = "validation"
    /\ LET DriftCount(validation_results) ==
               Len(validation_results.architecture_drift)
                   + Len(validation_results.setup_drift)
                   + Len(validation_results.api_drift)
           Returned(validation_results) ==
               /\ frame' = Some([frame[1] EXCEPT !.pc = "prompts",
                                     !.validation_results = Some(validation_results)])
               /\ events' =
                      Log(<<Stage("validation"),
                            Progress("  Found " \o Str(DriftCount(validation_results))
                                         \o " documentation drift issues"),
                            Progress("  Drift severity: "
                                         \o Lower(validation_results.drift_severity)),
                            Progress("Generating AI prompts...")>>)
       IN  Returned(ValidateResults(WithClaims(frame[1].doc_analysis[1],
                                               claims_of[frame[1].self]),
                                    frame[1].code_analysis[1], hash_order))
    /\ UNCHANGED <<hash_order, claims_of, returned>>
    /\ UNCHANGED validation_vars
    /\ UNCHANGED web_vars

\* orchestrator.py lines 97-119; what is returned is kept with the claims
\* its documentation analysis lists at the return.
PromptStage ==
    /\ frame # None
    /\ frame[1].pc = "prompts"
    /\ \E duration \in Durations :
          LET Returned(repo_analysis, prompts) ==
                  /\ returned' =
                         Append(returned,
                                [analysis |->
                                     [repo_analysis EXCEPT
                                         !.prompts = Some(prompts),
                                         !.analysis_duration_seconds = duration],
                                 repo |-> frame[1].repo,
                                 claims |-> claims_of[frame[1].self]])
                  /\ events' =
                         Log(<<Stage("prompts"),
                               Progress("  Generated " \o Str(Len(AllPrompts(prompts)))
                                            \o " AI prompts across 5 phases"),
                               Progress("Analysis complete in " \o Format2f(duration)
                                            \o " seconds")>>)
              Generated(repo_analysis) ==
                  Returned(repo_analysis, GenerateAllPhases(repo_analysis))
          IN  Generated(RepositoryAnalysis(frame[1].repo.root, frame[1].doc_analysis,
                                           frame[1].code_analysis,
                                           frame[1].validation_results, None, 0))
    /\ frame' = None
    /\ UNCHANGED <<hash_order, claims_of>>
    /\ UNCHANGED validation_vars
    /\ UNCHANGED web_vars

NextPipeline ==
    \/ \E self \in Orchestrators : \E repo \in Repositories : RunFullAnalysis(self, repo)
    \/ DocumentationStage
    \/ CodeStage
    \/ ValidationStage
    \/ PromptStage

SpecPipeline == InitPipeline /\ [][NextPipeline]_vars


(***************************************************************************)
(* ValidationEngine.validate called, once and again, in one process on     *)
(* analyses as the analyzers build them: documents with their text, the    *)
(* frameworks of FRAMEWORK_PATTERNS, the languages by file count.          *)
(***************************************************************************)
MaxCalls == 2

\* The strings of the sets that validate iterates, in the two iteration
\* orders of the processes considered.
EngineStrings ==
    <<".NET Core", "Angular", "Django", "Express", "Flask", "GraphQL Yoga",
      "Rails", "React", "Spring Boot", "Vue", "apollo-graphql", "docker", "git",
      "make", "node.js", "python", "redis", "requests">>
Reverse(seq) == [i \in DOMAIN seq |-> seq[Len(seq) + 1 - i]]
EngineOrders == {EngineStrings, Reverse(EngineStrings)}

DocReadme ==
    CreateDocumentFile(File("README.md", Some("Built with Flask and DJANGO."), 28),
                       "primary")[1]
DocArchitecture ==
    CreateDocumentFile(File("ARCHITECTURE.md", Some("The backend is Spring"), 21),
                       "architecture")[1]
DocApi ==
    CreateDocumentFile(File("API.md", Some("Boot the server with python."), 28), "api")[1]
FeatureDocLists == SubLists(<<DocReadme, DocArchitecture, DocApi>>)

TableFrameworks == [i \in DOMAIN FRAMEWORK_PATTERNS |-> Framework(FRAMEWORK_PATTERNS[i].name)]
FeatureFrameworkLists ==
    {<< >>, <<Framework("Flask")>>, <<Framework("Flask"), Framework("Rails")>>,
     <<Framework("Django"), Framework("Spring Boot"), Framework("Vue")>>,
     TableFrameworks}

Percent(count, total) == [numerator |-> count * 100, denominator |-> total]
FeatureLanguageLists ==
    {<< >>,
     <<Language("Python", Percent(3, 3), 3, 10)>>,
     <<Language("Go", Percent(2, 4), 2, 7), Language("Python", Percent(2, 4), 2, 5)>>,
     <<Language("TypeScript", Percent(5, 6), 5, 40), Language("Python", Percent(1, 6), 1, 2)>>}

FeatureInputs ==
    { <<DocumentationAnalysis(dd, None, None, None, << >>),
        CodeAnalysis(Some(CodeStructure(l, f, << >>)), << >>)>> :
        dd \in FeatureDocLists, l \in FeatureLanguageLists, f \in FeatureFrameworkLists }

InitEngine ==
    /\ NoServer
    /\ \E input \in FeatureInputs \cup ArchInputs \cup SetupInputs \cup ApiInputs :
          /\ docs = input[1]
          /\ code = input[2]
    /\ hash_order \in EngineOrders
    /\ report = None
    /\ returned = << >>
    /\ claims_of = << >>
    /\ frame = None
    /\ events = << >>
    /\ arch_drift = << >>
    /\ setup_drift = << >>
    /\ api_drift = << >>
    /\ drift_severity = None

\* engine.validate(docs, code): validation.py assigns to no attribute of
\* docs, of code or of a claim.  returned keeps, for every call, the
\* arguments before and after it and the report.
EngineValidate ==
    /\ Len(returned) < MaxCalls
    /\ report' = Some(ValidateResults(docs, code, hash_order))
    /\ docs' = docs
    /\ code' = code
    /\ returned' = Append(returned, [before |-> <<docs, code>>,
                                     after |-> <<docs', code'>>,
                                     report |-> report'[1]])
    /\ UNCHANGED <<arch_drift, setup_drift, api_drift, drift_severity>>
    /\ UNCHANGED web_vars
    /\ UNCHANGED <<hash_order, claims_of, frame, events>>

NextEngine == EngineValidate

SpecEngine == InitEngine /\ [][NextEngine]_vars


(***************************************************************************)
(* DocumentationAnalyzer().analyze(repo): one call on a new analyzer, on   *)
(* the repositories below.                                                 *)
(***************************************************************************)
\* A repository of text files, each of the size of its text.
TextRepository(root, files) ==
    Repository(root, TRUE,
               [i \in DOMAIN files |-> File(files[i][1], Some(files[i][2]), Len(files[i][2]))])

\* The lists that give each path of paths, in order, a text of pool or leave
\* the file out (Absent).
Absent == "<absent>"
RECURSIVE FileChoices(_, _)
FileChoices(paths, pool) ==
    IF paths = << >> THEN {<< >>}
    ELSE {(IF text = Absent THEN << >> ELSE << <<paths[1], text>> >>) \o rest :
             text \in pool \cup {Absent}, rest \in FileChoices(Tail(paths), pool)}

ApiTexts ==
    {"GraphQL schema of the shop", "gRPC services", "REST endpoints: GET /users",
     "Nothing to see", "uses grpc and GraphQL", "see the Endpoint list"}
ApiRepos ==
    {TextRepository("/srv/api", files) :
        files \in FileChoices(<<"README.md", "API.md", "docs/api/v1.md">>, ApiTexts)}

ArchitectureTexts ==
    {"Just a tool", "MVC controllers over Microservices",
     "Hexagonal design\n## Auth Service\nthe business layer",
     "A monolith with a data tier\n- **Billing**: invoices"}
ArchitectureRepos ==
    {TextRepository("/srv/arch", files) :
        files \in FileChoices(<<"docs/architecture.md", "README.md", "ARCHITECTURE.md">>,
                              ArchitectureTexts)}

\* Documents with an Installation heading and a fenced code block after it,
\* between other headings and text.
InstallHeading == "## Installation\n\n"
InstallBlocks ==
    {[lang |-> "bash", body |-> "pip install -r requirements.txt\n"],
     [lang |-> "", body |-> "# fetch the packages\npip install -r requirements.txt\n"]}
InstallSection(block) == InstallHeading \o Fence \o block.lang \o "\n" \o block.body \o Fence \o "\n"
SetupPrefixes == {"", "# Tool\n\nA tool.\n\n", "## Setup\n\n- run make\n\n"}
SetupSuffixes ==
    {"", "\n## Usage\n\nRun it.\n", "\n## Setup\n\nEdit the settings.\n",
     "\n### Build from source\n\nSee the wiki.\n"}
SetupRepos ==
    {TextRepository("/srv/setup", << <<path, prefix \o InstallSection(block) \o suffix>> >>) :
        path \in {"README.md", "INSTALL.md"}, prefix \in SetupPrefixes,
        block \in InstallBlocks, suffix \in SetupSuffixes}

\* Repositories where each of some documentation files is missing, has a
\* text, or cannot be read or decoded.
Unreadable == "<unreadable>"
RECURSIVE FileStates(_)
FileStates(paths) ==
    IF paths = << >> THEN {<< >>}
    ELSE {(CASE s = Absent -> << >>
             [] s = Unreadable -> <<File(paths[1], None, 3)>>
             [] OTHER -> <<File(paths[1], Some(s), Len(s))>>) \o rest :
             s \in {Absent, Unreadable, "The " \o paths[1] \o " text"},
             rest \in FileStates(Tail(paths))}
DiscoveryPaths ==
    <<"SECURITY.md", "docs/adr/x/one.md", "LICENSE", "API.md", "README.md",
      "CONTRIBUTING.md">>
DiscoveryRepos ==
    {Repository("/srv/docs", TRUE, files \o <<File("main.py", Some("print(1)\n"), 9)>>) :
        files \in FileStates(DiscoveryPaths)}

\* Documents with as many components, prerequisites, build steps,
\* environment variables and endpoints as the caps of the analyzer, one
\* fewer, and up to MaxExcess more; more of each in further documents.
MaxExcess == 1
Alphabet == "ABCDEFGHIJKLMNOPQRSTUVWXYZ"
Code2(i) == Char(Alphabet, ((i - 1) \div 26) + 1) \o Char(Alphabet, ((i - 1) % 26) + 1)
\* The strings of a list, one after the other.
RECURSIVE Concat(_)
Concat(seq) ==
    IF seq = << >> THEN ""
    ELSE IF Len(seq) = 1 THEN seq[1]
    ELSE Concat(SubSeq(seq, 1, Len(seq) \div 2))
             \o Concat(SubSeq(seq, Len(seq) \div 2 + 1, Len(seq)))
Lines(lines) == Concat([i \in DOMAIN lines |-> lines[i] \o "\n"])
LongArchitecture(excess) ==
    Lines([i \in 1..(20 + excess) |-> "## " \o Code2(i) \o " Module"])
LongInstall(excess) ==
    "## Requirements\n"
    \o Lines([i \in 1..(20 + excess) |-> "- " \o Code2(i)])
    \o "## Install\n"
    \o Lines([i \in 1..(30 + excess) |-> "- make " \o Code2(i)])
LongSetup(excess) ==
    Lines([i \in 1..(50 + excess) |-> Code2(i) \o "_=1"])
LongApi(excess) ==
    Lines([i \in 1..(50 + excess) |-> "GET /" \o Code2(i)])
ShortReadme ==
    "## AA Module\n## ZZ Service\n## Setup\n- make ZZ\n\nZZ_=1\n"
        \o "## Dependencies\n- ZZ\n" \o Backtick \o "POST /more" \o Backtick \o "\n"
LongRepos ==
    {TextRepository("/srv/big",
         << <<"README.md", ShortReadme>>,
            <<"ARCHITECTURE.md", LongArchitecture(excess)>>,
            <<"INSTALL.md", LongInstall(excess)>>,
            <<"SETUP.md", LongSetup(excess)>>,
            <<"API.md", LongApi(excess)>> >>) :
        excess \in 1..MaxExcess}

DocumentRepos ==
    ApiRepos \cup ArchitectureRepos \cup SetupRepos \cup DiscoveryRepos \cup LongRepos

\* The strings of the sets the analyzer iterates.
DocumentStrings ==
    <<"README.md", "INSTALL.md", "ZZ", "ZZ_=">>
        \o [i \in 1..(50 + MaxExcess) |-> Code2(i)]
        \o [i \in 1..(50 + MaxExcess) |-> Code2(i) \o "_="]
DocumentOrders == {DocumentStrings, Reverse(DocumentStrings)}

InitDocuments ==
    /\ NoServer
    /\ hash_order \in DocumentOrders
    /\ returned = << >>
    /\ claims_of = << >>
    /\ frame = None
    /\ events = << >>
    /\ arch_drift = << >>
    /\ setup_drift = << >>
    /\ api_drift = << >>
    /\ drift_severity = None
    /\ docs = NoDocs
    /\ code = NoCode
    /\ report = None

\* analysis = DocumentationAnalyzer().analyze(repo): returned keeps the
\* repository, the analysis and the claims list of the analyzer.
AnalyzeDocumentation(repo) ==
    /\ returned = << >>
    /\ LET Returned(r) ==
               returned' = <<[repo |-> repo, analysis |-> r.analysis, claims |-> r.claims]>>
       IN  Returned(Analyze(repo, << >>, 1, hash_order))
    /\ UNCHANGED <<hash_order, claims_of, frame, events>>
    /\ UNCHANGED validation_vars
    /\ UNCHANGED web_vars

NextDocuments == \E repo \in DocumentRepos : AnalyzeDocumentation(repo)

SpecDocuments == InitDocuments /\ [][NextDocuments]_vars


(***************************************************************************)
(* The quality scans of CodeAnalyzer, _check_for_todos and                 *)
(* _check_for_security_issues, step by step: a step of the TODO scan reads *)
(* one line, a step of the secret scan one file.  frame is the scan in     *)
(* progress; events lists what it has opened and read, a <<path>> for an   *)
(* open and a <<path, line number>> for a line.                            *)
(***************************************************************************)
TODO_LIMIT == 100
SECRET_LIMIT == 20

\* for line_num, line in enumerate(f_handle, 1): the lines of a file
FileLines(content) == Take(SplitLines(content), LineCount(content))

\* if len(issues) >= limit: return issues
ScanReturnsNever(issues, limit) == FALSE
ScanReturns(issues, limit) == Len(issues) >= limit

\* A file of m marked lines after a line without a mark.
TodoMarks == <<"# TODO: tidy", "call()  #fixme: later", "#  XXX:  x">>
TodoFile(m) ==
    Lines(<<"import os">> \o [i \in 1..m |-> TodoMarks[(i % 3) + 1]])
TodoRepo(first, last) ==
    Repository("/srv/scan", TRUE,
        << File("a.py", Some(TodoFile(first)), 0),
           File("venv/lib.py", Some("# TODO: not walked\n"), 19),
           File("bin.py", None, 3),
           File("notes.txt", Some("# TODO: not code\n"), 17),
           File("z.py", Some(TodoFile(last)), 0) >>)
TodoRepos ==
    {TodoRepo(2, 1), TodoRepo(TODO_LIMIT - 1, 1), TodoRepo(60, 40 + MaxExcess),
     TodoRepo(TODO_LIMIT + MaxExcess, 3)}

AllSecrets == "password = 'x'\napi_key = \"y\"\nSecret='z'\n"
SecretRepo(n) ==
    Repository("/srv/keys", TRUE,
        << File("a.py", Some("PASSWORD = \"hunter2\"\n"), 21), File("bin.py", None, 3) >>
        \o [i \in 1..n |-> File("s" \o Str(i) \o ".py", Some(AllSecrets), 39)])
SecretRepos == {SecretRepo(1), SecretRepo(6), SecretRepo(7), SecretRepo(7 + MaxExcess)}

Scan(scan, repo) ==
    [scan |-> scan, repo |-> repo, file |-> 1, lines |-> None, line |-> 1,
     issues |-> << >>, pc |-> "scanning"]

InitScan ==
    /\ NoServer
    /\ frame \in {Some(Scan("todos", repo)) : repo \in TodoRepos}
                    \cup {Some(Scan("secrets", repo)) : repo \in SecretRepos}
    /\ events = << >>
    /\ hash_order = << >>
    /\ claims_of = << >>
    /\ returned = << >>
    /\ arch_drift = << >>
    /\ setup_drift = << >>
    /\ api_drift = << >>
    /\ drift_severity = None
    /\ docs = NoDocs
    /\ code = NoCode
    /\ report = None

Scanning(scan) ==
    /\ frame # None
    /\ frame[1].scan = scan
    /\ frame[1].pc = "scanning"
    /\ frame[1].file <= Len(ScannedFiles(frame[1].repo))

ScannedFile == ScannedFiles(frame[1].repo)[frame[1].file]

\* open() or the decoding raises: except (UnicodeDecodeError,
\* PermissionError): continue
SkipFile ==
    /\ Scanning("todos") \/ Scanning("secrets")
    /\ frame[1].lines = None
    /\ ScannedFile.content = None
    /\ frame' = Some([frame[1] EXCEPT !.file = @ + 1])
    /\ events' = Append(events, <<ScannedFile.path>>)

\* with open(file_path, "r", encoding="utf-8") as f_handle
TodoOpen ==
    /\ Scanning("todos")
    /\ frame[1].lines = None
    /\ ScannedFile.content # None
    /\ frame' = Some([frame[1] EXCEPT !.lines = Some(FileLines(ScannedFile.content[1])),
                                      !.line = 1])
    /\ events' = Append(events, <<ScannedFile.path>>)

\* One turn of the loop over the lines of a file: code.py lines 404-422
TodoLine ==
    /\ Scanning("todos")
    /\ frame[1].lines # None
    /\ frame[1].line <= Len(frame[1].lines[1])
    /\ LET Step(path, n, match) ==
               LET Added(issues) ==
                       frame' = Some([frame[1] EXCEPT
                                         !.issues = issues,
                                         !.line = @ + 1,
                                         !.pc = IF match # None
                                                   /\ ScanReturns(issues, TODO_LIMIT)
                                                THEN "returned" ELSE @])
               IN  Added(IF match = None THEN frame[1].issues
                         ELSE Append(frame[1].issues,
                                     Issue(match[1].todo_type \o " in " \o path \o ":" \o Str(n),
                                           match[1].description, "LOW", path)))
       IN  Step(ScannedFile.path, frame[1].line,
                TodoSearch(frame[1].lines[1][frame[1].line]))
    /\ events' = Append(events, <<ScannedFile.path, frame[1].line>>)

\* The lines of the file are exhausted: the next file.
TodoEndOfFile ==
    /\ Scanning("todos")
    /\ frame[1].lines # None
    /\ frame[1].line > Len(frame[1].lines[1])
    /\ frame' = Some([frame[1] EXCEPT !.file = @ + 1, !.lines = None, !.line = 1])
    /\ UNCHANGED events

\* The issues the patterns add for one file, up to the one with which the
\* list reaches the limit: code.py lines 446-462
RECURSIVE WithSecrets(_, _, _)
WithSecrets(issues, found, limit) ==
    IF found = << >> THEN issues
    ELSE IF ScanReturns(Append(issues, Head(found)), limit) THEN Append(issues, Head(found))
    ELSE WithSecrets(Append(issues, Head(found)), Tail(found), limit)

\* One turn of the loop over the files: content = f_handle.read() and the
\* patterns on it.
SecretFile ==
    /\ Scanning("secrets")
    /\ ScannedFile.content # None
    /\ LET Added(issues) ==
               frame' = Some([frame[1] EXCEPT
                                 !.issues = issues,
                                 !.file = @ + 1,
                                 !.pc = IF Len(issues) > Len(frame[1].issues)
                                           /\ ScanReturns(issues, SECRET_LIMIT)
                                        THEN "returned" ELSE @])
       IN  Added(WithSecrets(frame[1].issues, FileSecrets(ScannedFile), SECRET_LIMIT))
    /\ events' = Append(events, <<ScannedFile.path>>)

\* os.walk is exhausted: return issues
ScanEnds ==
    /\ frame # None
    /\ frame[1].pc = "scanning"
    /\ frame[1].file > Len(ScannedFiles(frame[1].repo))
    /\ frame' = Some([frame[1] EXCEPT !.pc = "returned"])
    /\ UNCHANGED events

NextScan ==
    \/ SkipFile /\ UNCHANGED <<hash_order, claims_of, returned>> /\ UNCHANGED validation_vars /\ UNCHANGED web_vars
    \/ TodoOpen /\ UNCHANGED <<hash_order, claims_of, returned>> /\ UNCHANGED validation_vars /\ UNCHANGED web_vars
    \/ TodoLine /\ UNCHANGED <<hash_order, claims_of, returned>> /\ UNCHANGED validation_vars /\ UNCHANGED web_vars
    \/ TodoEndOfFile /\ UNCHANGED <<hash_order, claims_of, returned>> /\ UNCHANGED validation_vars /\ UNCHANGED web_vars
    \/ SecretFile /\ UNCHANGED <<hash_order, claims_of, returned>> /\ UNCHANGED validation_vars /\ UNCHANGED web_vars
    \/ ScanEnds /\ UNCHANGED <<hash_order, claims_of, returned>> /\ UNCHANGED validation_vars /\ UNCHANGED web_vars

SpecScan == InitScan /\ [][NextScan]_vars


(***************************************************************************)
(* CodeAnalyzer().analyze(repo): one call, on the repositories below.      *)
(***************************************************************************)
CodeFiles ==
    << File("main.py", Some("import os\n# TODO: args\nprint(1)\n"), 32),
       File("lib/util.py", Some("x = 1"), 5),
       File("web/app.JS", Some("let a;\n# TODO: tidy\nlet c;\n"), 27),
       File("dist/bundle.js", Some("var a;\n# TODO: drop\n"), 20),
       File("distribution/setup.py", Some("setup()\n"), 8),
       File("src/x.ts", None, 3),
       File("bin/tool", Some("#!/bin/sh\n"), 10) >>
\* Files of languages with two extensions.
WebFiles ==
    << File("api/x.py", Some("x = 1\n"), 6),
       File("api/y.py", Some("y = 2\n"), 6),
       File("ui/a.js", Some("let a;\n"), 7),
       File("ui/b.jsx", Some("let b;\n"), 7),
       File("ui/c.jsx", Some("let c;\n"), 7),
       File("ui/d.tsx", Some("let d;\n"), 7) >>
\* Files with the names of entry points.
EntryFiles ==
    << File("latest/main.py", Some("run()\n"), 6),
       File("test/app.py", Some("check()\n"), 8),
       File("src/server.py", Some("serve()\n"), 8),
       File("index.js", Some("start();\n"), 9),
       File("src/main.py", Some("run()\n"), 6) >>
CodeRepos ==
    {Repository(root, TRUE, files) :
        root \in {"/srv/app", "/srv/rebuild"}, files \in SubLists(CodeFiles)}
        \cup {Repository("/srv/web", TRUE, files) : files \in SubLists(WebFiles)}
        \cup {Repository("/srv/entry", TRUE, files) : files \in SubLists(EntryFiles)}

InitCode ==
    /\ NoServer
    /\ returned = << >>
    /\ hash_order = << >>
    /\ claims_of = << >>
    /\ frame = None
    /\ events = << >>
    /\ arch_drift = << >>
    /\ setup_drift = << >>
    /\ api_drift = << >>
    /\ drift_severity = None
    /\ docs = NoDocs
    /\ code = NoCode
    /\ report = None

\* analysis = CodeAnalyzer().analyze(repo)
AnalyzeCodeCall(repo) ==
    /\ returned = << >>
    /\ returned' = <<[repo |-> repo, analysis |-> AnalyzeCode(repo)]>>
    /\ UNCHANGED <<hash_order, claims_of, frame, events>>
    /\ UNCHANGED validation_vars
    /\ UNCHANGED web_vars

NextCode == \E repo \in CodeRepos : AnalyzeCodeCall(repo)

SpecCode == InitCode /\ [][NextCode]_vars


(***************************************************************************)
(* _extract_section applied to markdown texts of up to MaxSectionLines     *)
(* lines.                                                                  *)
(***************************************************************************)
MaxSectionLines == 4
SectionLinePool ==
    {"# Install", "## Install notes", "## Usage", "# Usage", "run make", "#Install"}
SectionTexts ==
    {Join(lines, "\n") : lines \in SeqsUpTo(SectionLinePool, MaxSectionLines) \ {<< >>}}
        \cup {""}
SectionKeywords == {<<"install">>, <<"build", "installation", "install", "setup">>}

\* section = self._extract_section(content, keywords)
ExtractSectionCall(content, keywords) ==
    /\ returned = << >>
    /\ returned' = <<[content |-> content, keywords |-> keywords,
                      section |-> ExtractSection(content, keywords)]>>
    /\ UNCHANGED <<hash_order, claims_of, frame, events>>
    /\ UNCHANGED validation_vars
    /\ UNCHANGED web_vars

NextSection ==
    \E content \in SectionTexts : \E keywords \in SectionKeywords :
        ExtractSectionCall(content, keywords)

SpecSection == InitCode /\ [][NextSection]_vars


(***************************************************************************)
(* web.py: the handlers of /api/analyze and /api/download-prompts on the   *)
(* module's analysis_cache.  The server handles each request in a thread   *)
(* of its own; a request of analyze is at one of the positions received,   *)
(* analyzed (run_full_analysis has returned) and cached.                   *)
(***************************************************************************)
MaxRequests == 3

\* The paths os.path.exists accepts; the same directory under two strings.
ExistingPaths == {"/srv/app", "/srv/app/", "/srv/locked"}
\* The repositories whose analysis can raise.
UnreadablePaths == {"/srv/locked"}
RequestPaths == ExistingPaths \cup {"/srv/gone"}

\* request.get_json(): no JSON body, or a dict in which repo_path is
\* missing, empty or a path.
AnalyzeBodies ==
    {None, Some(None), Some(Some(""))} \cup {Some(Some(p)) : p \in RequestPaths}
\* request.args.get("repo")
DownloadArgs == {None, Some("")} \cup {Some(p) : p \in RequestPaths}

\* The RepositoryAnalysis of one run: no two runs return the same object.
AnalysisOfRequest(id, repo_path) == [repository_path |-> repo_path, request |-> id]

Response(id, kind, repo_path, status, analysis) ==
    [id |-> id, kind |-> kind, repo_path |-> repo_path, status |-> status,
     analysis |-> analysis]

Arrived == Cardinality(requests) + Len(responses)

\* data.get("repo_path") of a body that is a dict
RepoPathOf(r) == r.data[1]

\* "if not repo_path" or "if not os.path.exists(repo_path)"
Rejected(r) ==
    IF RepoPathOf(r) = None THEN TRUE
    ELSE RepoPathOf(r)[1] = "" \/ RepoPathOf(r)[1] \notin ExistingPaths

\* The request gets past the three checks.
Accepted(r) == IF r.data = None THEN FALSE ELSE ~Rejected(r)

InitServer ==
    /\ analysis_cache = [p \in RequestPaths |-> None]
    /\ requests = {}
    /\ responses = << >>
    /\ NoPipeline
    /\ arch_drift = << >>
    /\ setup_drift = << >>
    /\ api_drift = << >>
    /\ drift_severity = None
    /\ docs = NoDocs
    /\ code = NoCode
    /\ report = None

\* A POST of /api/analyze reaches the handler.
AnalyzeReceived(data) ==
    /\ Arrived < MaxRequests
    /\ requests' = requests \cup {[id |-> Arrived + 1, data |-> data, pc |-> "received",
                                  analysis |-> None]}
    /\ UNCHANGED <<analysis_cache, responses>>
    /\ UNCHANGED <<validation_vars, pipeline_vars>>

\* data is None and data.get raises (500), or one of the two 400 answers
AnalyzeRejected(r) ==
    /\ r.pc = "received"
    /\ ~Accepted(r)
    /\ responses' = Append(responses,
                           Response(r.id, "analyze",
                                    IF r.data = None THEN None ELSE RepoPathOf(r),
                                    IF r.data = None THEN 500 ELSE 400, None))
    /\ requests' = requests \ {r}
    /\ UNCHANGED analysis_cache
    /\ UNCHANGED <<validation_vars, pipeline_vars>>

\* analysis = orchestrator.run_full_analysis(repo_path)
AnalysisReturns(r) ==
    /\ r.pc = "received"
    /\ Accepted(r)
    /\ requests' = (requests \ {r})
                      \cup {[r EXCEPT !.pc = "analyzed",
                                      !.analysis =
                                          Some(AnalysisOfRequest(r.id, RepoPathOf(r)[1]))]}
    /\ UNCHANGED <<analysis_cache, responses>>
    /\ UNCHANGED <<validation_vars, pipeline_vars>>

\* run_full_analysis raises: except Exception answers 500
AnalysisRaises(r) ==
    /\ r.pc = "received"
    /\ Accepted(r)
    /\ RepoPathOf(r)[1] \in UnreadablePaths
    /\ responses' = Append(responses, Response(r.id, "analyze", RepoPathOf(r), 500, None))
    /\ requests' = requests \ {r}
    /\ UNCHANGED analysis_cache
    /\ UNCHANGED <<validation_vars, pipeline_vars>>

\* analysis_cache[repo_path] = analysis
AnalyzeCaches(r) ==
    /\ r.pc = "analyzed"
    /\ analysis_cache' = [analysis_cache EXCEPT ![RepoPathOf(r)[1]] = r.analysis]
    /\ requests' = (requests \ {r}) \cup {[r EXCEPT !.pc = "cached"]}
    /\ UNCHANGED responses
    /\ UNCHANGED <<validation_vars, pipeline_vars>>

\* return jsonify(response)
AnalyzeResponds(r) ==
    /\ r.pc = "cached"
    /\ responses' = Append(responses,
                           Response(r.id, "analyze", RepoPathOf(r), 200, r.analysis))
    /\ requests' = requests \ {r}
    /\ UNCHANGED analysis_cache
    /\ UNCHANGED <<validation_vars, pipeline_vars>>

\* download_prompts: 404 without an entry, else the prompts of the entry;
\* the prompts of an analysis that returned are a PromptCollection.
DownloadPrompts(repo_path) ==
    /\ Arrived < MaxRequests
    /\ responses' =
          Append(responses,
                 IF repo_path = None
                 THEN Response(Arrived + 1, "download-prompts", repo_path, 404, None)
                 ELSE IF repo_path[1] = "" \/ analysis_cache[repo_path[1]] = None
                 THEN Response(Arrived + 1, "download-prompts", repo_path, 404, None)
                 ELSE Response(Arrived + 1, "download-prompts", repo_path, 200,
                               analysis_cache[repo_path[1]]))
    /\ UNCHANGED <<analysis_cache, requests>>
    /\ UNCHANGED <<validation_vars, pipeline_vars>>

NextServer ==
    \/ \E data \in AnalyzeBodies : AnalyzeReceived(data)
    \/ \E r \in requests : AnalyzeRejected(r)
    \/ \E r \in requests : AnalysisReturns(r)
    \/ \E r \in requests : AnalysisRaises(r)
    \/ \E r \in requests : AnalyzeCaches(r)
    \/ \E r \in requests : AnalyzeResponds(r)
    \/ \E repo_path \in DownloadArgs : DownloadPrompts(repo_path)

SpecServer == InitServer /\ [][NextServer]_vars

(***************************************************************************)
(* Properties.                                                             *)
(***************************************************************************)
AllDrift == arch_drift \o setup_drift \o api_drift

\* C1: the overall severity is HIGH if some result has severity CRITICAL or
\* HIGH, otherwise MEDIUM if more than 3 results are INVALID or PARTIAL,
\* otherwise LOW; it is never CRITICAL or INFO.
DriftSeverityRule ==
    drift_severity # None =>
        LET some_high ==
                \E i \in DOMAIN AllDrift : AllDrift[i].severity \in {"CRITICAL", "HIGH"}
            troubled ==
                Cardinality({i \in DOMAIN AllDrift :
                                AllDrift[i].validation_status \in {"INVALID", "PARTIAL"}})
        IN  /\ some_high => drift_severity[1] = "HIGH"
            /\ ~some_high /\ troubled > 3 => drift_severity[1] = "MEDIUM"
            /\ ~some_high /\ troubled <= 3 => drift_severity[1] = "LOW"
            /\ drift_severity[1] \notin {"CRITICAL", "INFO"}

\* C1 witness: a CRITICAL result among more than 3 INVALID/PARTIAL results
\* has been aggregated to HIGH.
DriftSeverityCriticalCapped ==
    /\ drift_severity = Some("HIGH")
    /\ \E i \in DOMAIN AllDrift : AllDrift[i].severity = "CRITICAL"
    /\ Cardinality({i \in DOMAIN AllDrift :
                       AllDrift[i].validation_status \in {"INVALID", "PARTIAL"}}) > 3

\* The architecture results of the report that judge the pattern, and those
\* that judge the component list.
PatternDrift ==
    SelectSeq(report[1].architecture_drift,
              LAMBDA r : r.evidence.text = "Detected frameworks")
ComponentDrift ==
    SelectSeq(report[1].architecture_drift,
              LAMBDA r : r.evidence.text = "Found claimed components")

PatternIsClaimed ==
    /\ docs.claimed_architecture # None
    /\ TruthyStr(docs.claimed_architecture[1].pattern)
ClaimedPattern == docs.claimed_architecture[1].pattern[1]

\* The consistency table as the specification states it.
ExpectedSubstrings(pattern) ==
    CASE pattern = "mvc" -> {"django", "rails", "spring"}
      [] pattern = "microservices" -> {"express", "flask", "spring boot"}
      [] pattern = "monolith" -> {"django", "rails"}
      [] OTHER -> {}
PatternHasEntry(pattern) == pattern \in {"mvc", "microservices", "monolith"}
PatternIsConsistent ==
    \/ ~PatternHasEntry(Lower(ClaimedPattern))
    \/ \E f \in DOMAIN code.structure[1].frameworks :
          \E e \in ExpectedSubstrings(Lower(ClaimedPattern)) :
             Contains(e, Lower(code.structure[1].frameworks[f].name))
PatternHasClaim ==
    \E i \in DOMAIN docs.claims :
        /\ docs.claims[i].claim_type = "ARCHITECTURE"
        /\ Contains(Lower(ClaimedPattern), Lower(docs.claims[i].description))

OnePatternResult ==
    /\ Len(PatternDrift) = 1
    /\ PatternDrift[1].severity = "MEDIUM"
    /\ PatternDrift[1].validation_status =
          (IF PatternIsConsistent THEN "VALID" ELSE "PARTIAL")

\* C2 as stated: whenever a pattern is claimed, exactly one MEDIUM result for
\* it is emitted, VALID if consistent and PARTIAL otherwise.
PatternResultWheneverClaimed ==
    report # None /\ PatternIsClaimed =>
        /\ Len(PatternDrift) = 1
        /\ PatternDrift[1].severity = "MEDIUM"
        /\ PatternDrift[1].validation_status =
              (IF code.structure # None /\ PatternIsConsistent
               THEN "VALID" ELSE "PARTIAL")

\* C2 amended: a claimed pattern gets exactly one MEDIUM result, VALID if
\* consistent and PARTIAL otherwise, when the code structure is present and
\* the claim list holds an ARCHITECTURE claim naming the pattern; otherwise
\* no result judges the pattern.
PatternResultWhenClaimListed ==
    report # None =>
        IF PatternIsClaimed /\ code.structure # None /\ PatternHasClaim
        THEN OnePatternResult
        ELSE PatternDrift = << >>

\* C2 witness: 'mvc' claimed, no Django/Rails/Spring framework, PARTIAL MEDIUM.
MvcWithoutFrameworkIsPartial ==
    /\ report # None
    /\ PatternIsClaimed
    /\ ClaimedPattern = "mvc"
    /\ code.structure # None
    /\ ~PatternIsConsistent
    /\ Len(PatternDrift) = 1
    /\ PatternDrift[1].validation_status = "PARTIAL"
    /\ PatternDrift[1].severity = "MEDIUM"

SetupIsClaimed == docs.setup_instructions # None
Prerequisites == docs.setup_instructions[1].prerequisites

\* The claimed prerequisites longer than 3 characters that no detected
\* dependency name contains, as positions of the prerequisite list.
MissingPrerequisites ==
    {i \in DOMAIN Prerequisites :
        /\ Len(Prerequisites[i]) > 3
        /\ ~\E j \in DOMAIN code.dependencies :
              Contains(Lower(Prerequisites[i]), Lower(code.dependencies[j].name))}

\* The same, prerequisites that differ only in letter case counted once.
MissingTerms == {Lower(Prerequisites[i]) : i \in MissingPrerequisites}

HasSetupClaim == \E i \in DOMAIN docs.claims : docs.claims[i].claim_type = "SETUP"

OneSetupResult(terms) ==
    /\ Len(report[1].setup_drift) = 1
    /\ report[1].setup_drift[1].validation_status = "PARTIAL"
    /\ report[1].setup_drift[1].severity = "LOW"
    /\ Len(report[1].setup_drift[1].evidence.items) <= 5
    /\ Range(report[1].setup_drift[1].evidence.items) \subseteq terms

\* C8 as stated: more than 2 missing prerequisites, also when no dependency
\* was detected, give exactly one PARTIAL LOW result listing at most 5 of
\* them; 2 or fewer give none.
SetupResultWheneverMissing ==
    report # None /\ SetupIsClaimed =>
        IF Cardinality(MissingPrerequisites) > 2
        THEN OneSetupResult(MissingTerms)
        ELSE report[1].setup_drift = << >>

\* C8 amended: exactly one PARTIAL LOW result listing at most 5 (all, when
\* there are at most 5) of the missing terms is emitted when at least one
\* dependency was detected, the claim list holds a SETUP claim and more
\* than 2 distinct lowercased prerequisites are missing; otherwise none.
SetupResultWhenDependenciesKnown ==
    report # None =>
        IF /\ SetupIsClaimed
           /\ code.dependencies # << >>
           /\ HasSetupClaim
           /\ Cardinality(MissingTerms) > 2
        THEN /\ OneSetupResult(MissingTerms)
             /\ Cardinality(Range(report[1].setup_drift[1].evidence.items)) =
                   Min(5, Cardinality(MissingTerms))
        ELSE report[1].setup_drift = << >>

\* C8 witness: more than 5 terms are missing and the result lists 5 of them.
SetupResultListsFive ==
    /\ report # None
    /\ SetupIsClaimed
    /\ Cardinality(MissingTerms) > 5
    /\ Len(report[1].setup_drift) = 1
    /\ Len(report[1].setup_drift[1].evidence.items) = 5

ApiStyle ==
    IF docs.api_documentation # None /\ TruthyStr(docs.api_documentation[1].api_type)
    THEN docs.api_documentation[1].api_type[1]
    ELSE "none"

\* Some detected framework name contains 'graphql', letter case aside.
GraphqlFrameworkDetected ==
    /\ code.structure # None
    /\ \E f \in DOMAIN code.structure[1].frameworks :
          Contains("graphql", Lower(code.structure[1].frameworks[f].name))

HasApiClaim == \E i \in DOMAIN docs.claims : docs.claims[i].claim_type = "API"

OneApiResult ==
    /\ Len(report[1].api_drift) = 1
    /\ report[1].api_drift[1].validation_status = "PARTIAL"
    /\ report[1].api_drift[1].severity = "MEDIUM"

\* C9 as stated: exactly one PARTIAL MEDIUM result when the claimed style is
\* GraphQL and no framework name contains 'graphql'; no result otherwise.
ApiResultWheneverGraphql ==
    report # None =>
        IF Lower(ApiStyle) = "graphql" /\ ~GraphqlFrameworkDetected
        THEN OneApiResult
        ELSE report[1].api_drift = << >>

\* C9 amended: the result is emitted when, in addition, the code structure
\* is present and the claim list holds an API claim; no result otherwise.
ApiResultWhenClaimListed ==
    report # None =>
        IF /\ Lower(ApiStyle) = "graphql"
           /\ ~GraphqlFrameworkDetected
           /\ code.structure # None
           /\ HasApiClaim
        THEN OneApiResult
        ELSE report[1].api_drift = << >>

\* C9 witness: GraphQL claimed, frameworks detected, none of them GraphQL,
\* and the result is there.
GraphqlWithoutFrameworkIsPartial ==
    /\ report # None
    /\ ApiStyle = "GraphQL"
    /\ code.structure # None
    /\ code.structure[1].frameworks # << >>
    /\ ~GraphqlFrameworkDetected
    /\ OneApiResult

ComponentsAreClaimed ==
    /\ docs.claimed_architecture # None
    /\ docs.claimed_architecture[1].components # << >>
ClaimedComponents == docs.claimed_architecture[1].components

\* The claimed components that occur in some entry-point path, letter case
\* aside, as positions of the component list.
FoundComponents ==
    {i \in DOMAIN ClaimedComponents :
        /\ code.structure # None
        /\ \E p \in DOMAIN code.structure[1].entry_points :
              Contains(Lower(ClaimedComponents[i]),
                       Lower(code.structure[1].entry_points[p].path))}

OneComponentResult ==
    /\ Len(ComponentDrift) = 1
    /\ ComponentDrift[1].validation_status = "PARTIAL"

\* C10 as stated: whenever components are claimed, a PARTIAL result is
\* emitted exactly when fewer than half of them are found.
ComponentResultWheneverClaimed ==
    report # None /\ ComponentsAreClaimed =>
        IF 2 * Cardinality(FoundComponents) < Len(ClaimedComponents)
        THEN OneComponentResult
        ELSE ComponentDrift = << >>

\* C10 amended: with the code structure present, a PARTIAL result is emitted
\* exactly when fewer than half of the claimed components are found; with
\* the structure absent, or without claimed components, none is emitted.
ComponentResultWhenStructureKnown ==
    report # None =>
        IF /\ ComponentsAreClaimed
           /\ code.structure # None
           /\ 2 * Cardinality(FoundComponents) < Len(ClaimedComponents)
        THEN OneComponentResult
        ELSE ComponentDrift = << >>

\* C10 witness: 1 of 3 claimed components is found and the result is there.
OneOfThreeComponentsIsPartial ==
    /\ report # None
    /\ ComponentsAreClaimed
    /\ Len(ClaimedComponents) = 3
    /\ Cardinality(FoundComponents) = 1
    /\ OneComponentResult

(***************************************************************************)
(* Properties of run_full_analysis.                                        *)
(***************************************************************************)
\* The repository of call k, and whether the call has returned.
HasReturned(k) == k \in DOMAIN returned
CallRepo(k) == IF HasReturned(k) THEN returned[k].repo ELSE frame[1].repo

StagesOf(log) ==
    LET entries == SelectSeq(log, LAMBDA e : "stage" \in DOMAIN e)
    IN  [i \in DOMAIN entries |-> entries[i].stage]
MessagesOf(log) ==
    LET entries == SelectSeq(log, LAMBDA e : "message" \in DOMAIN e)
    IN  [i \in DOMAIN entries |-> entries[i].message]

\* The position of an entry in a log, 0 when it is not there.
Index(log, entry) ==
    IF \E i \in DOMAIN log : log[i] = entry
    THEN Least({i \in DOMAIN log : log[i] = entry})
    ELSE 0

\* What call k returned: the documentation analysis with the claims it
\* listed at the return, the code analysis and the drift report.
DocumentationReturned(k) ==
    WithClaims(returned[k].analysis.documentation[1], returned[k].claims)
CodeReturned(k) == returned[k].analysis.code[1]
ValidationReturned(k) == returned[k].analysis.validation[1]

\* The documentation analysis call k returned, as it reads now.
DocumentationNow(k) ==
    WithClaims(returned[k].analysis.documentation[1],
               claims_of[returned[k].analysis.documentation[1].claims])

HasNoDocumentation(repo) ==
    \A i \in DOMAIN FilesOf(repo) :
       \A t \in DOMAIN DOCUMENTATION_PATTERNS :
          \A p \in DOMAIN DOCUMENTATION_PATTERNS[t].patterns :
             ~PatternMatches(DOCUMENTATION_PATTERNS[t].patterns[p], FilesOf(repo)[i].path)

\* C3: two consecutive runs on the same repository return the same
\* documentation analysis (documents, claim list, guides), the same code
\* analysis and the same drift report, also through one orchestrator.
ConsecutiveRunsReturnTheSame ==
    \A k \in DOMAIN returned :
       (k > 1 /\ returned[k].repo = returned[k - 1].repo)
           => /\ DocumentationReturned(k) = DocumentationReturned(k - 1)
              /\ CodeReturned(k) = CodeReturned(k - 1)
              /\ ValidationReturned(k) = ValidationReturned(k - 1)

\* C4: every analysis of a repository without documentation files has an
\* empty claim list, no discovered document and completeness score 0.
NoDocumentationGivesNoClaims ==
    \A k \in DOMAIN returned :
       HasNoDocumentation(returned[k].repo)
           => /\ DocumentationReturned(k).claims = << >>
              /\ DocumentationReturned(k).discovered_docs = << >>
              /\ DocumentationReturned(k).completeness_score = 0

\* C5: a documentation analysis that was returned stays as it was returned,
\* whatever runs follow: its claim list keeps its length and content.
ReturnedAnalysisStaysAsReturned ==
    \A k \in DOMAIN returned : DocumentationNow(k) = DocumentationReturned(k)

\* C6: a call on a root that does not exist runs no stage and returns no
\* RepositoryAnalysis.
MissingRootRunsNoStage ==
    \A k \in DOMAIN events :
       ~CallRepo(k).exists => StagesOf(events[k]) = << >> /\ ~HasReturned(k)

stage_order == <<"documentation", "code", "validation", "prompts">>

\* The entries of a log that returned, in the order of orchestrator.py.
InPipelineOrder(log) ==
    LET at == <<Index(log, Progress("Phase 0: Analyzing documentation...")),
                Index(log, Stage("documentation")),
                Index(log, Progress("Phase 1-2: Analyzing code structure...")),
                Index(log, Stage("code")),
                Index(log, Progress("Validation: Comparing documentation vs code...")),
                Index(log, Stage("validation")),
                Index(log, Progress("Generating AI prompts...")),
                Index(log, Stage("prompts"))>>
    IN  /\ at[1] = 1
        /\ \A i \in 1..(Len(at) - 1) : at[i] < at[i + 1]
        /\ at[Len(at)] < Len(log)
        /\ StartsAt(log[Len(log)].message, 1, "Analysis complete in ")

\* C7: in every call the stages run in the order documentation, code,
\* validation, prompts, each once; the first message is the Phase 0 message;
\* a call that returned ran all four with the messages between them in that
\* order and the completion message last, validated the documentation and
\* code analyses of this call, and returned all four parts with a prompt.
StagesRunInOrder ==
    \A k \in DOMAIN events :
       /\ StagesOf(events[k]) = Take(stage_order, Len(StagesOf(events[k])))
       /\ MessagesOf(events[k])[1] = "Phase 0: Analyzing documentation..."
       /\ HasReturned(k) =>
             /\ StagesOf(events[k]) = stage_order
             /\ InPipelineOrder(events[k])
             /\ returned[k].analysis.documentation # None
             /\ returned[k].analysis.code # None
             /\ returned[k].analysis.validation # None
             /\ returned[k].analysis.prompts # None
             /\ Len(AllPrompts(returned[k].analysis.prompts[1])) >= 1
             /\ ValidationReturned(k) =
                    Validate(DocumentationReturned(k), CodeReturned(k),
                             SetOrder(MissingDeps(DocumentationReturned(k), CodeReturned(k)),
                                      hash_order),
                             SetOrder(DetectedFrameworks(CodeReturned(k)), hash_order))

\* C7 witness: a call on the MVC repository returned, with drift found and
\* ten prompts.
MvcRunReturnedWithDrift ==
    \E k \in DOMAIN returned :
       /\ returned[k].repo = RepoMvc
       /\ Len(ValidationReturned(k).setup_drift) = 1
       /\ Len(ValidationReturned(k).architecture_drift) = 1
       /\ Len(AllPrompts(returned[k].analysis.prompts[1])) = 10

(***************************************************************************)
(* Properties of validate on the analyses of one process.                  *)
(***************************************************************************)
\* The lowercased text of all discovered documents, joined by spaces.
DocumentText(d) ==
    Lower(Join([i \in DOMAIN d.discovered_docs |-> d.discovered_docs[i].content], " "))

\* The names of the detected frameworks that the text does not mention.
UndocumentedFrameworkNames(d, c) ==
    IF c.structure = None THEN {}
    ELSE {f \in {c.structure[1].frameworks[i].name : i \in DOMAIN c.structure[1].frameworks} :
             ~Contains(Lower(f), DocumentText(d))}

\* The languages of the highest file count, when the text does not mention
\* the first of them.
UndocumentedTopLanguages(d, c) ==
    IF c.structure = None THEN {}
    ELSE LET languages == c.structure[1].languages
             top == {i \in DOMAIN languages :
                        \A j \in DOMAIN languages :
                           /\ languages[j].file_count <= languages[i].file_count
                           /\ j < i => languages[j].file_count < languages[i].file_count}
         IN  {languages[i].name : i \in {i \in top : ~Contains(Lower(languages[i].name),
                                                               DocumentText(d))}}

DueLabels(d, c) ==
    {"Framework: " \o f : f \in UndocumentedFrameworkNames(d, c)}
       \cup {"Primary language: " \o l : l \in UndocumentedTopLanguages(d, c)}

Discovered(k) == returned[k].analysis.discovered_docs

\* The texts, lowercased, of the documents _extract_api_spec is given.
ApiCandidateTexts(k) ==
    {Lower(Discovered(k)[i].content) :
        i \in {i \in DOMAIN Discovered(k) : Discovered(k)[i].doc_type \in {"api", "primary"}}}

Mentions(texts, keywords) ==
    \E text \in texts : \E w \in keywords : Contains(w, text)

StyleByPrecedence(texts) ==
    IF Mentions(texts, {"graphql"}) THEN Some("GraphQL")
    ELSE IF Mentions(texts, {"grpc"}) THEN Some("gRPC")
    ELSE IF Mentions(texts, {"rest", "api", "endpoint"}) THEN Some("REST")
    ELSE None

ApiTypeOf(k) ==
    IF returned[k].analysis.api_documentation = None THEN None
    ELSE returned[k].analysis.api_documentation[1].api_type

\* C12: the API style of an analysis is GraphQL if any candidate document
\* mentions graphql, otherwise gRPC if any mentions grpc, otherwise REST if
\* any mentions rest, api or endpoint, otherwise none.
ApiStyleFollowsPrecedence ==
    \A k \in DOMAIN returned : ApiTypeOf(k) = StyleByPrecedence(ApiCandidateTexts(k))

\* The documents _extract_architecture_claims is given, in its order.
ArchitectureCandidates(k) ==
    OfType(Discovered(k), {"primary"}) \o OfType(Discovered(k), {"architecture"})

\* The table entries with a keyword in the text.
PatternsIn(text) ==
    {p \in DOMAIN patterns :
        \E w \in DOMAIN patterns[p].keywords : Contains(patterns[p].keywords[w], Lower(text))}

ArchitectureClaimsOf(k) ==
    SelectSeq(returned[k].claims, LAMBDA c : c.claim_type = "ARCHITECTURE")

\* C13: the pattern of an analysis is that of the first candidate document
\* (READMEs, then architecture documents) with a pattern keyword in it, and
\* in that document the first entry of the table with a keyword present; no
\* later document changes it; one ARCHITECTURE claim is made for it, from
\* that document, and none without a pattern; every candidate document
\* gives its layer keywords and, until the list of components is full, its
\* component names.
PatternOfFirstMatchingDocument ==
    \A k \in DOMAIN returned :
       LET Holds(candidates, matching, architecture, made) ==
               /\ matching = {} =>
                     /\ architecture.pattern = None
                     /\ made = << >>
               /\ matching # {} =>
                     /\ architecture.pattern =
                            Some(patterns[Least(PatternsIn(candidates[Least(matching)].content))].name)
                     /\ Len(made) = 1
                     /\ made[1].source_doc = candidates[Least(matching)].path
                     /\ made[1].description =
                            "Architecture pattern: " \o architecture.pattern[1]
               /\ \A i \in DOMAIN candidates :
                     /\ \A w \in DOMAIN layer_keywords :
                           Contains(layer_keywords[w], Lower(candidates[i].content))
                              => layer_keywords[w] \in Range(architecture.layers)
                     /\ \/ Len(architecture.components) = 20
                        \/ /\ Range(ComponentMatches(candidates[i].content, 1, 1))
                                 \subseteq Range(architecture.components)
                           /\ Range(ComponentMatches(candidates[i].content, 1, 2))
                                 \subseteq Range(architecture.components)
       IN  Holds(ArchitectureCandidates(k),
                 {i \in DOMAIN ArchitectureCandidates(k) :
                     PatternsIn(ArchitectureCandidates(k)[i].content) # {}},
                 returned[k].analysis.claimed_architecture[1],
                 ArchitectureClaimsOf(k))

\* C13 witness: the README names two patterns and an architecture document
\* after it a third one, with a layer and a component of its own.
ReadmePatternKeptLaterDocumentAdds ==
    \E k \in DOMAIN returned :
       /\ Len(ArchitectureCandidates(k)) = 3
       /\ ArchitectureCandidates(k)[1].content = "MVC controllers over Microservices"
       /\ ArchitectureCandidates(k)[2].content =
             "Hexagonal design\n## Auth Service\nthe business layer"
       /\ returned[k].analysis.claimed_architecture[1].pattern = Some("microservices")
       /\ "business layer" \in Range(returned[k].analysis.claimed_architecture[1].layers)
       /\ "Auth" \in Range(returned[k].analysis.claimed_architecture[1].components)
       /\ "Billing" \in Range(returned[k].analysis.claimed_architecture[1].components)
       /\ Len(ArchitectureClaimsOf(k)) = 1

\* The documents _extract_setup_guide is given.
SetupCandidates(k) == OfType(Discovered(k), {"setup", "primary"})

\* C14: when a README or setup document has an Installation heading with a
\* fenced code block after it in its section, the trimmed body of the block
\* is one of the build steps, whatever is around that section.
InstallationBlockIsBuildStep ==
    \A k \in DOMAIN returned :
       \A i \in DOMAIN SetupCandidates(k) :
          \A block \in InstallBlocks :
             Contains(InstallSection(block), SetupCandidates(k)[i].content)
                => Strip(block.body)
                      \in Range(returned[k].analysis.setup_instructions[1].build_steps)

\* The categories whose catalog patterns a path matches.
CategoriesOf(path) ==
    {DOCUMENTATION_PATTERNS[t].doc_type :
        t \in {t \in DOMAIN DOCUMENTATION_PATTERNS :
                  \E p \in DOMAIN DOCUMENTATION_PATTERNS[t].patterns :
                     PatternMatches(DOCUMENTATION_PATTERNS[t].patterns[p], path)}}

\* The files of the repository of call k that match the catalog.
CatalogFiles(k) ==
    {i \in DOMAIN FilesOf(returned[k].repo) :
        CategoriesOf(FilesOf(returned[k].repo)[i].path) # {}}

\* C17: the discovered documents are sorted by priority and, within a
\* priority, by path; documents of one category have one priority; and when
\* the repository has a README of the catalog the first document is primary.
DiscoveredDocumentsSorted ==
    \A k \in DOMAIN returned :
       LET Holds(discovered, files) ==
               /\ \A i, j \in DOMAIN discovered :
                     /\ i < j =>
                           \/ discovered[i].priority < discovered[j].priority
                           \/ /\ discovered[i].priority = discovered[j].priority
                              /\ ~StrLess(discovered[j].path, discovered[i].path)
                     /\ discovered[i].doc_type = discovered[j].doc_type
                           => discovered[i].priority = discovered[j].priority
               /\ \A i \in DOMAIN discovered :
                     discovered[i].priority = 1 <=> discovered[i].doc_type = "primary"
               /\ (\E f \in DOMAIN files :
                      files[f].path \in {"README.md", "README.rst", "README.txt", "README"})
                     => /\ discovered # << >>
                        /\ discovered[1].doc_type = "primary"
       IN  Holds(Discovered(k), FilesOf(returned[k].repo))

\* C17 witness: six documents of five priorities with the README first and
\* two pairs of equal priority in path order.
SixDocumentsInPriorityOrder ==
    \E k \in DOMAIN returned :
       [i \in DOMAIN Discovered(k) |-> Discovered(k)[i].path] =
          <<"README.md", "CONTRIBUTING.md", "docs/adr/x/one.md", "API.md", "SECURITY.md",
            "LICENSE">>

\* The sum of the weights of the categories.
ScoreOf(categories) ==
    Sum([w \in DOMAIN weights |->
            IF weights[w].doc_type \in categories THEN weights[w].weight ELSE 0])

\* C18 as stated: a file of the catalog that cannot be read has no record
\* among the discovered documents and its category does not count for the
\* completeness score.
UnreadableDocumentIsSkipped ==
    \A k \in DOMAIN returned :
       LET Holds(discovered, files, readable) ==
               /\ \A f \in CatalogFiles(k) \ readable :
                     \A i \in DOMAIN discovered : discovered[i].path # files[f].path
               /\ returned[k].analysis.completeness_score =
                     Min(100, ScoreOf(UNION {CategoriesOf(files[f].path) : f \in readable}))
       IN  Holds(Discovered(k), FilesOf(returned[k].repo),
                 {f \in CatalogFiles(k) : FilesOf(returned[k].repo)[f].content # None})

\* C18: every file of the catalog, also one that cannot be read or decoded,
\* has one record per category among the discovered documents, with its
\* text or, if it cannot be read, the empty text; the categories of all of
\* them count for the completeness score.
UnreadableDocumentHasEmptyRecord ==
    \A k \in DOMAIN returned :
       LET Holds(discovered, files) ==
               /\ \A f \in CatalogFiles(k) :
                     \A c \in CategoriesOf(files[f].path) :
                        \E i \in DOMAIN discovered :
                           /\ discovered[i].path = files[f].path
                           /\ discovered[i].doc_type = c
                           /\ discovered[i].content =
                                 (IF files[f].content = None THEN ""
                                  ELSE files[f].content[1])
                           /\ \A j \in DOMAIN discovered :
                                 /\ discovered[j].path = files[f].path
                                 /\ discovered[j].doc_type = c
                                 => j = i
               /\ \A i \in DOMAIN discovered :
                     \E f \in CatalogFiles(k) :
                        /\ discovered[i].path = files[f].path
                        /\ discovered[i].doc_type \in CategoriesOf(files[f].path)
               /\ returned[k].analysis.completeness_score =
                     Min(100, ScoreOf(UNION {CategoriesOf(files[f].path) :
                                                f \in CatalogFiles(k)}))
       IN  Holds(Discovered(k), FilesOf(returned[k].repo))

\* C18 witness: the README cannot be read and the API document can; both
\* have a record and the score counts both categories.
UnreadableReadmeCounted ==
    \E k \in DOMAIN returned :
       /\ [i \in DOMAIN Discovered(k) |-> <<Discovered(k)[i].path, Discovered(k)[i].content>>]
             = << <<"README.md", "">>, <<"API.md", "The API.md text">> >>
       /\ returned[k].analysis.completeness_score = 40

NoRepeats(seq) == \A i, j \in DOMAIN seq : seq[i] = seq[j] => i = j

\* C19: in every analysis the layers are at most 10, the components at
\* most 20 and none twice, the endpoints at most 50, the environment
\* variables at most 50, the build steps at most 30 and the prerequisites
\* at most 20.
AnalysisListsAreCapped ==
    \A k \in DOMAIN returned :
       LET Holds(architecture, setup, api) ==
               /\ Len(architecture.layers) <= 10
               /\ Len(architecture.components) <= 20
               /\ NoRepeats(architecture.components)
               /\ api # None => Len(api[1].endpoints) <= 50
               /\ Len(setup.environment_vars) <= 50
               /\ Len(setup.build_steps) <= 30
               /\ Len(setup.prerequisites) <= 20
       IN  Holds(returned[k].analysis.claimed_architecture[1],
                 returned[k].analysis.setup_instructions[1],
                 returned[k].analysis.api_documentation)

\* C19 witness: documents with more of each than the caps, analysed into
\* lists of exactly the caps.
LongDocumentsCutToCaps ==
    \E k \in DOMAIN returned :
       /\ returned[k].repo \in LongRepos
       /\ Len(returned[k].analysis.claimed_architecture[1].components) = 20
       /\ Len(returned[k].analysis.api_documentation[1].endpoints) = 50
       /\ Len(returned[k].analysis.setup_instructions[1].environment_vars) = 50
       /\ Len(returned[k].analysis.setup_instructions[1].build_steps) = 30
       /\ Len(returned[k].analysis.setup_instructions[1].prerequisites) = 20

(***************************************************************************)
(* Properties of the quality scans.                                        *)
(***************************************************************************)
\* The lines of the scanned files that the TODO pattern matches, as
\* <<path, line number>>.
MarkedLines(repo) ==
    LET Marked(path, lines) ==
            {<<path, n>> : n \in {n \in DOMAIN lines : TodoSearch(lines[n]) # None}}
    IN  UNION {Marked(ScannedFiles(repo)[f].path, FileLines(ScannedFiles(repo)[f].content[1])) :
                  f \in {f \in DOMAIN ScannedFiles(repo) :
                            ScannedFiles(repo)[f].content # None}}

\* C15: the TODO scan returns min(n, 100) issues for n marked lines in the
\* scanned files and the secret scan at most 20; a scan whose list reaches
\* its limit returns at that step, so the last line or file it read is the
\* one that gave the last issue and nothing is read after it.
ScansStopAtTheirLimits ==
    frame # None =>
       LET Holds(scan, limit, issues) ==
               /\ Len(issues) <= limit
               /\ Len(issues) = limit =>
                     /\ scan.pc = "returned"
                     /\ events # << >>
                     /\ events[Len(events)][1] = issues[limit].source
                     /\ scan.scan = "todos" =>
                           /\ events[Len(events)] \in MarkedLines(scan.repo)
                           /\ Cardinality(Range(events) \cap MarkedLines(scan.repo)) = limit
               /\ scan.pc = "returned" /\ scan.scan = "todos" =>
                     /\ Len(issues) = Min(Cardinality(MarkedLines(scan.repo)), TODO_LIMIT)
                     /\ issues = CheckForTodos(scan.repo)
               /\ scan.pc = "returned" /\ scan.scan = "secrets" =>
                     issues = CheckForSecurityIssues(scan.repo)
       IN  Holds(frame[1], IF frame[1].scan = "todos" THEN TODO_LIMIT ELSE SECRET_LIMIT,
                 frame[1].issues)

\* C15 witness: a TODO scan returned 100 issues from files with more marked
\* lines, the last of them unread.
TodoScanStoppedBeforeTheEnd ==
    /\ frame # None
    /\ frame[1].scan = "todos"
    /\ frame[1].pc = "returned"
    /\ Len(frame[1].issues) = TODO_LIMIT
    /\ Cardinality(MarkedLines(frame[1].repo)) > TODO_LIMIT
    /\ events[Len(events)][1] = "z.py"
    /\ <<"z.py", LineCount(TodoFile(40 + MaxExcess))>> \notin Range(events)

(***************************************************************************)
(* Properties of CodeAnalyzer.analyze.                                     *)
(***************************************************************************)
ignored_directories == {".git", "node_modules", "venv", "__pycache__", "build", "dist"}

\* The names of the directories on the way from the root to a file.
RECURSIVE DirectoryNames(_)
DirectoryNames(path) ==
    IF Find(path, "/", 1) = 0 THEN {}
    ELSE {SubSeq(path, 1, Find(path, "/", 1) - 1)}
            \cup DirectoryNames(From(path, Find(path, "/", 1) + 1))

\* The files with an extension of the table outside the ignored directories.
RecognizedFiles(repo) ==
    {f \in DOMAIN FilesOf(repo) :
        /\ Get(LANGUAGE_EXTENSIONS, Lower(Suffix(BaseName(FilesOf(repo)[f].path))), "") # ""
        /\ DirectoryNames(FilesOf(repo)[f].path) \cap ignored_directories = {}}

\* C16: with a recognized file outside the ignored directories the
\* histogram is not empty, its file counts add up to the number of such
\* files, each percentage is file count / total * 100 and the percentages
\* add up to 100; without one it is empty; the line counts add up to the
\* lines of the files that can be decoded.
LanguageHistogramCountsRecognizedFiles ==
    \A k \in DOMAIN returned :
       LET Holds(languages, files, recognized) ==
               /\ recognized = {} => languages = << >>
               /\ recognized # {} =>
                     /\ languages # << >>
                     /\ Sum([i \in DOMAIN languages |-> languages[i].file_count])
                           = Cardinality(recognized)
                     /\ \A i \in DOMAIN languages :
                           /\ languages[i].percentage.numerator = languages[i].file_count * 100
                           /\ languages[i].percentage.denominator = Cardinality(recognized)
                     /\ Sum([i \in DOMAIN languages |-> languages[i].percentage.numerator])
                           = 100 * Cardinality(recognized)
               /\ Sum([i \in DOMAIN languages |-> languages[i].line_count])
                     = Sum([f \in DOMAIN files |->
                               IF f \in recognized /\ files[f].content # None
                               THEN LineCount(files[f].content[1]) ELSE 0])
       IN  Holds(returned[k].analysis.structure[1].languages,
                 FilesOf(returned[k].repo), RecognizedFiles(returned[k].repo))

(***************************************************************************)
(* Properties of ValidationEngine.validate on any analyses.                *)
(***************************************************************************)
\* Nothing is claimed and nothing is known of the code.
EmptyInputs(d, c) ==
    /\ d.claimed_architecture = None
    /\ d.setup_instructions = None
    /\ d.api_documentation = None
    /\ c.structure = None

\* C21: every call of validate returns a report whose overall severity is a
\* Severity; on a documentation analysis without architecture claims, setup
\* guide and API spec and a code analysis without structure the three
\* result lists and the undocumented features are empty and the severity
\* is LOW.
ValidateEmptyInputsIsLow ==
    \A k \in DOMAIN returned :
       /\ returned[k].report.drift_severity \in Severity
       /\ EmptyInputs(returned[k].before[1], returned[k].before[2]) =>
             /\ returned[k].report.architecture_drift = << >>
             /\ returned[k].report.setup_drift = << >>
             /\ returned[k].report.api_drift = << >>
             /\ returned[k].report.undocumented_features = << >>
             /\ returned[k].report.drift_severity = "LOW"

\* C21 witness: validate returned on empty inputs that still carry claims
\* and dependencies.
EmptyInputsValidated ==
    \E k \in DOMAIN returned :
       /\ EmptyInputs(returned[k].before[1], returned[k].before[2])
       /\ returned[k].before[1].claims # << >>
       /\ returned[k].before[2].dependencies # << >>
       /\ returned[k].report.drift_severity = "LOW"

(***************************************************************************)
(* Properties of _extract_section.                                         *)
(***************************************************************************)
\* The lines that are headings with a keyword in the lowered title.
KeywordHeadings(lines, keywords) ==
    {i \in DOMAIN lines :
        /\ HeaderMatch(lines[i]) # None
        /\ TitleHasKeyword(HeaderMatch(lines[i])[1].title, keywords)}

\* The first heading after line first that is not deeper than line first,
\* or the line after the last.
SectionEnd(lines, first) ==
    LET closing == {j \in DOMAIN lines :
                       /\ j > first
                       /\ HeaderMatch(lines[j]) # None
                       /\ HeaderMatch(lines[j])[1].level <= HeaderMatch(lines[first])[1].level}
    IN  IF closing = {} THEN Len(lines) + 1 ELSE Least(closing)

\* C22: the section returned runs from the first heading with a keyword in
\* its title to the line before the next heading that is not deeper, deeper
\* headings with a keyword included; it is none exactly when no heading has
\* a keyword in its title.
SectionFromFirstKeywordHeading ==
    \A k \in DOMAIN returned :
       LET Holds(lines, headings, section) ==
               /\ section = None <=> headings = {}
               /\ headings # {} =>
                     section = Some(Join(SubSeq(lines, Least(headings),
                                                SectionEnd(lines, Least(headings)) - 1),
                                         "\n"))
       IN  Holds(SplitLines(returned[k].content),
                 KeywordHeadings(SplitLines(returned[k].content), returned[k].keywords),
                 returned[k].section)

\* The files _detect_languages counts for a language name.
CountedFor(repo, name) ==
    {f \in DOMAIN FilesOf(repo) :
        /\ \E i \in DOMAIN WalkFiles(repo, <<".git", "node_modules", "venv", "__pycache__",
                                             "build", "dist">>) :
              WalkFiles(repo, <<".git", "node_modules", "venv", "__pycache__", "build",
                                "dist">>)[i] = FilesOf(repo)[f]
        /\ Get(LANGUAGE_EXTENSIONS, Lower(Suffix(BaseName(FilesOf(repo)[f].path))), "") = name}

\* C23: the histogram has one entry for each language name, whose file
\* count is the number of counted files of all extensions of the language,
\* and the entries are in descending order of file count, so that the first
\* is the language with the most files.
OneHistogramEntryPerLanguage ==
    \A k \in DOMAIN returned :
       LET Holds(repo, languages) ==
               /\ \A i, j \in DOMAIN languages :
                     languages[i].name = languages[j].name => i = j
               /\ \A i \in DOMAIN languages :
                     languages[i].file_count =
                        Cardinality(CountedFor(repo, languages[i].name))
               /\ \A i, j \in DOMAIN languages :
                     i < j => languages[i].file_count >= languages[j].file_count
               /\ \A i \in DOMAIN languages :
                     Cardinality(CountedFor(repo, languages[1].name))
                        >= Cardinality(CountedFor(repo, languages[i].name))
       IN  Holds(returned[k].repo, returned[k].analysis.structure[1].languages)

\* The build steps _extract_setup_guide takes from one document.
OwnBuildSteps(doc) ==
    ListItemsOf(ExtractSection(doc.content, <<"build", "installation", "install", "setup">>))
        \o CodeBlocksOf(ExtractSection(doc.content,
                                       <<"build", "installation", "install", "setup">>))

SetupClaimsOf(k) == SelectSeq(returned[k].claims, LAMBDA c : c.claim_type = "SETUP")

\* C24: the SETUP claims of an analysis are one for each setup candidate
\* with build steps of its own, in the order of the candidates, and none for
\* a candidate without; every claim of the analysis is testable.
SetupClaimPerDocumentWithSteps ==
    \A k \in DOMAIN returned :
       LET Holds(with_steps, made) ==
               /\ Len(made) = Len(with_steps)
               /\ \A i \in DOMAIN made :
                     i <= Len(with_steps) => made[i].source_doc = with_steps[i].path
               /\ \A i \in DOMAIN returned[k].claims : returned[k].claims[i].testable
       IN  Holds(SelectSeq(SetupCandidates(k), LAMBDA d : OwnBuildSteps(d) # << >>),
                 SetupClaimsOf(k))

\* The list items of the prerequisite section of one document.
OwnPrerequisites(doc) ==
    ListItemsOf(ExtractSection(doc.content,
                               <<"prerequisite", "requirement", "dependencies">>))

\* C25: the prerequisites of the setup guide are the distinct list items of
\* the prerequisite sections in the order of their first occurrence
\* (documents in the order processed, items in source order), and the first
\* 20 of them when there are more.
PrerequisitesInFirstOccurrenceOrder ==
    \A k \in DOMAIN returned :
       returned[k].analysis.setup_instructions # None =>
          LET Holds(items, kept) == kept = Take(Dedup(items), 20)
          IN  Holds(Flatten([i \in DOMAIN SetupCandidates(k) |->
                                 OwnPrerequisites(SetupCandidates(k)[i])]),
                    returned[k].analysis.setup_instructions[1].prerequisites)

\* The files _detect_languages counts.
CountedFiles(repo) ==
    SelectSeq(WalkFiles(repo, <<".git", "node_modules", "venv", "__pycache__",
                                "build", "dist">>),
              LAMBDA f : Get(LANGUAGE_EXTENSIONS, Lower(Suffix(BaseName(f.path))), "") # "")

\* C26: the quality issues of an analysis come from exactly the files that
\* language detection counts and that hold a TODO comment or a secret: no
\* counted file is left out of the scans and no other file is scanned.
ScansVisitCountedFiles ==
    \A k \in DOMAIN returned :
       LET Holds(issues, counted) ==
               {issues[i].source : i \in DOMAIN issues}
                  = {counted[i].path :
                        i \in {j \in DOMAIN counted :
                                  FileTodos(counted[j]) \o FileSecrets(counted[j]) # << >>}}
       IN  Holds(returned[k].analysis.quality_issues, CountedFiles(returned[k].repo))

\* The files named name that lie under no excluded directory of the
\* repository, as entry points.
EntryPointsNamed(repo, name, description) ==
    LET files == SelectSeq(FilesOf(repo),
                     LAMBDA f : /\ BaseName(f.path) = name
                                /\ DirectoryNames(f.path) \cap Range(excluded) = {})
    IN  [i \in DOMAIN files |->
            [path |-> files[i].path, entry_type |-> "main", description |-> description]]

\* C27: the entry points of an analysis are the files with a canonical
\* entry-point name under no excluded directory of the repository, whatever
\* the root and whatever other directory names contain, in the order of the
\* names in the table, and the first 10 of them.
EntryPointsOutsideExcludedDirectories ==
    \A k \in DOMAIN returned :
       returned[k].analysis.structure[1].entry_points
          = Take(Flatten([p \in DOMAIN entry_patterns |->
                             EntryPointsNamed(returned[k].repo, entry_patterns[p][1],
                                              entry_patterns[p][2])]), 10)

\* Every result of the list carries a claim, and one of the type.
ClaimsOfType(results, claim_type) ==
    \A i \in DOMAIN results :
       /\ results[i].claim # None
       /\ results[i].claim[1].claim_type = claim_type

\* C28: in the report of validate every architecture result references an
\* ARCHITECTURE claim, every setup result a SETUP claim and every API
\* result an API claim, and no result is without a claim.
ResultsCarryClaimOfTheirList ==
    report # None =>
       /\ ClaimsOfType(report[1].architecture_drift, "ARCHITECTURE")
       /\ ClaimsOfType(report[1].setup_drift, "SETUP")
       /\ ClaimsOfType(report[1].api_drift, "API")

AllResults(r) == r.architecture_drift \o r.setup_drift \o r.api_drift

\* C29: a report of validate holds at most 2 architecture results, 1 setup
\* result and 1 API result, each of severity MEDIUM or LOW; its overall
\* severity is LOW or MEDIUM, and MEDIUM only with all 4 results present
\* and all of them PARTIAL.
ReportHoldsAtMostFourMildResults ==
    report # None =>
       /\ Len(report[1].architecture_drift) <= 2
       /\ Len(report[1].setup_drift) <= 1
       /\ Len(report[1].api_drift) <= 1
       /\ \A i \in DOMAIN AllResults(report[1]) :
             AllResults(report[1])[i].severity \in {"MEDIUM", "LOW"}
       /\ report[1].drift_severity \in {"LOW", "MEDIUM"}
       /\ report[1].drift_severity = "MEDIUM" =>
             /\ Len(AllResults(report[1])) = 4
             /\ \A i \in DOMAIN AllResults(report[1]) :
                   AllResults(report[1])[i].validation_status = "PARTIAL"

\* validate has returned a report with four PARTIAL results and MEDIUM.
FourPartialResultsAreMedium ==
    /\ report # None
    /\ Len(AllResults(report[1])) = 4
    /\ report[1].drift_severity = "MEDIUM"

(***************************************************************************)
(* Properties of the web server's cache.                                   *)
(***************************************************************************)
\* The analyze requests for a path that were answered 200, as positions
\* in responses.
Succeeded(p) ==
    {i \in DOMAIN responses :
        /\ responses[i].kind = "analyze"
        /\ responses[i].status = 200
        /\ responses[i].repo_path = Some(p)}

\* C30: when no request is being handled, a path with no successful
\* analyze request has no cache entry, and the entry of any other path is
\* the result of the most recent successful analyze request for it: the
\* one received last or the one answered last.
CacheHoldsMostRecentAnalysis ==
    requests = {} =>
       \A p \in RequestPaths :
          LET Latest(ok) ==
                  IF ok = {} THEN analysis_cache[p] = None
                  ELSE \E i \in ok :
                          /\ analysis_cache[p] = responses[i].analysis
                          /\ \/ \A j \in ok : j <= i
                             \/ \A j \in ok : responses[j].id <= responses[i].id
          IN  Latest(Succeeded(p))
====
